---- MODULE Spec2Model ----
(***************************************************************************)
(* Request admission control plane of the document-RAG backend:            *)
(*   app/middleware/rate_limiting.py  (InMemoryRateLimiter,                *)
(*                                     RedisRateLimiter, rate_limit_check) *)
(*   app/middleware/performance.py    (PerformanceMiddleware,              *)
(*                                     AsyncLimitMiddleware)               *)
(*   app/routes/query.py, app/routes/ingest.py, app/main.py                *)
(*                                                                         *)
(* Time is a discrete clock `now`; time.time() reads it.  Two calls may    *)
(* read the same instant (the clock need not advance between calls).       *)
(***************************************************************************)
EXTENDS Integers, Sequences, FiniteSets, TLC

(***************************************************************************)
(* Bounds of the model.                                                    *)
(***************************************************************************)
MaxTime == 3          \* the clock runs over 0..MaxTime
MaxCalls == 3         \* length of the recorded call history
MaxChecks == 4        \* rate_limit_check calls recorded in the history
MaxLimit == 2         \* limits passed to is_allowed range over 1..MaxLimit
MaxWindow == 2        \* windows passed to is_allowed range over 1..MaxWindow
QueryLimit == 3       \* RATE_LIMITS["query"]["limit"] (10), scaled
QueryWindow == 1      \* RATE_LIMITS["query"]["window"] (60 s), scaled
IngestLimit == 2      \* RATE_LIMITS["ingest"]["limit"] (5), scaled
IngestWindow == 4     \* RATE_LIMITS["ingest"]["window"] (300 s), scaled
MaxRequests == 3      \* requests that can be in progress together
QueryCap == 2         \* get_semaphore: limit of a /query path (5), scaled
IngestCap == 1        \* get_semaphore: limit of an /ingest path (3), scaled
MaxConcurrent == 2    \* AsyncLimitMiddleware max_concurrent (20), scaled
MaxRequestTime == 2   \* PerformanceMiddleware max_request_time (30 s), scaled
QueryTimeout == 1     \* async_timeout of the query route (25 s), scaled
IngestTimeout == 4    \* async_timeout of the ingest route (60 s), scaled
HashLen == 2          \* hexadecimal digits kept of the digest (16), scaled
MaxCorpus == 1        \* documents that can be committed

\* rate_limit_check line 138: key = f"rate_limit:{client_ip}"
KeyOf(client_ip) == <<"rate_limit", client_ip>>

Keys == {KeyOf("a"), KeyOf("b")}
Limits == 1..MaxLimit
Windows == 1..MaxWindow

\* request paths, as <<leading segment, remainder>>
QueryPath == <<"/query", "">>
QuerySubPath == <<"/query", "/x">>
IngestPath == <<"/ingest", "">>
HealthPath == <<"/health", "">>
Paths == {QueryPath, QuerySubPath, IngestPath, HealthPath}
NoPath == <<"", "">>

RIds == 1..MaxRequests

VARIABLES
    now,              \* time.time()
    requests,         \* InMemoryRateLimiter.requests : key -> list of timestamps
    redis_available,  \* REDIS_AVAILABLE (import of redis.asyncio succeeded)
    redis_client,     \* RedisRateLimiter.redis_client : "none" or "conn"
    started,          \* the lifespan startup (main.py lines 26-35) has run
    zsets,            \* the store: key -> sorted set, a set of [member, score]
    zexpire,          \* the store: key -> instant at which the key expires
    policy,           \* the (limit, window) of a fixed-policy caller
    hist,             \* history of the limiter calls made so far
    semaphores,       \* AsyncLimitMiddleware.semaphores : path -> free permits
    req,              \* the HTTP requests in progress, by request id
    cache_client,     \* CacheService.redis_client : "none" or "conn"
    cache_store,      \* the cache's store: key -> entry
    corpus,           \* the documents committed to the vector store
    call,             \* the latest call made by a client of the cache layer
    retry,            \* the run of a function wrapped by async_retry
    work,             \* the run of a function wrapped by async_timeout
    units,            \* the coroutines given to gather_with_concurrency
    pool,             \* a ConnectionPool and its callers
    tasks,            \* tasks inside InMemoryRateLimiter.is_allowed and its lock
    life              \* the lifespan of the application and what ran in it

rateVars == <<now, requests, redis_available, redis_client, started, zsets,
              zexpire, policy, hist>>

cacheVars == <<cache_client, cache_store, corpus, call>>

utilVars == <<retry, work, units, pool, tasks, life>>

vars == <<now, requests, redis_available, redis_client, started, zsets,
          zexpire, policy, hist, semaphores, req,
          cache_client, cache_store, corpus, call,
          retry, work, units, pool, tasks, life>>

(***************************************************************************)
(* Helpers on functions used as dictionaries.                              *)
(***************************************************************************)
Put(f, k, v) == [x \in (DOMAIN f) \cup {k} |-> IF x = k THEN v ELSE f[x]]

Get(f, k, default) == IF k \in DOMAIN f THEN f[k] ELSE default

EmptyDict == [x \in {} |-> 0]

(***************************************************************************)
(* InMemoryRateLimiter.is_allowed                                          *)
(***************************************************************************)
\* CleanOld with the boundary instant kept (>= instead of >)
CleanOldKeepsBoundary(list, window_start) ==
    SelectSeq(list, LAMBDA req_time : req_time >= window_start)

\* the list comprehension: keep req_time > window_start
CleanOld(list, window_start) == SelectSeq(list, LAMBDA req_time : req_time > window_start)

\* is_allowed with the instant recorded whatever the answer
LocalIsAllowedRecordsAlways(reqs, key, limit, window, t) ==
    LET window_start == t - window
        cleaned == IF key \in DOMAIN reqs THEN CleanOld(reqs[key], window_start) ELSE <<>>
    IN  [requests |-> Put(reqs, key, Append(cleaned, t)), ret |-> Len(cleaned) < limit]

\* body of is_allowed under the lock; yields the new dictionary and the result
LocalIsAllowed(reqs, key, limit, window, t) ==
    LET window_start == t - window
        cleaned == IF key \in DOMAIN reqs THEN CleanOld(reqs[key], window_start) ELSE <<>>
    IN  IF Len(cleaned) >= limit
        THEN [requests |-> Put(reqs, key, cleaned), ret |-> FALSE]
        ELSE [requests |-> Put(reqs, key, Append(cleaned, t)), ret |-> TRUE]

(***************************************************************************)
(* The store's sorted set commands used by RedisRateLimiter.is_allowed.    *)
(* A sorted set is a set of [member, score]; members are unique.           *)
(***************************************************************************)
ZRemRangeByScore(z, lo, hi) == {e \in z : ~(lo <= e.score /\ e.score <= hi)}

ZCard(z) == Cardinality(z)

ZAdd(z, member, score) ==
    {e \in z : e.member # member} \cup {[member |-> member, score |-> score]}

\* the sorted set held under key at instant t (an expired key is gone)
LiveSet(zs, ze, key, t) ==
    IF key \in DOMAIN zs /\ (key \notin DOMAIN ze \/ t < ze[key]) THEN zs[key] ELSE {}

\* the pipeline with the insertion made only when the count is below the limit
PipelineInsertOnAdmit(zs, ze, key, limit, window, t) ==
    LET window_start == t - window
        pruned == ZRemRangeByScore(LiveSet(zs, ze, key, t), 0, window_start)
        current_requests == ZCard(pruned)
        added == IF current_requests < limit THEN ZAdd(pruned, t, t) ELSE pruned
    IN  [zsets |-> Put(zs, key, added),
         zexpire |-> Put(ze, key, t + window),
         count |-> current_requests]

\* pipe.zremrangebyscore; pipe.zcard; pipe.zadd(key, {str(now): now});
\* pipe.expire(key, window); results[1] is the zcard.  The member str(now) is
\* one string per instant, so the instant itself stands for it.
Pipeline(zs, ze, key, limit, window, t) ==
    LET window_start == t - window
        pruned == ZRemRangeByScore(LiveSet(zs, ze, key, t), 0, window_start)
        current_requests == ZCard(pruned)
        added == ZAdd(pruned, t, t)
    IN  [zsets |-> Put(zs, key, added),
         zexpire |-> Put(ze, key, t + window),
         count |-> current_requests]

\* is_allowed line 83: no client, or redis not importable
RedisUnavailableResult == TRUE

\* the except branch returning False
RedisErrorRejects == FALSE

\* is_allowed line 106: the except branch
RedisErrorResult == TRUE

\* is_allowed line 102
RedisAnswer(current_requests, limit) == current_requests < limit

(***************************************************************************)
(* History records.                                                        *)
(***************************************************************************)
\* via: the limiter that decided; cls: the endpoint class of the caller;
\* ret: the boolean returned; ret2: the boolean a second limiter returned for
\* the same call (equal to ret when only one was called); applied: the store
\* executed the pipeline; answered: the pipeline's results came back
CallRec(via, cls, key, limit, window, t, ret, ret2, applied, answered) ==
    [via |-> via, cls |-> cls, key |-> key, limit |-> limit, window |-> window,
     t |-> t, ret |-> ret, ret2 |-> ret2, applied |-> applied, answered |-> answered]

(***************************************************************************)
(* Initial state of the rate limiting globals (module import).             *)
(***************************************************************************)
\* a request slot not in use
IdleReq ==
    [pc |-> "idle", path |-> NoPath, age |-> 0, sent |-> <<>>, exit |-> "none",
     released |-> 0, full |-> FALSE, gate |-> "none", body |-> FALSE]

\* no call of the cache layer made yet
NoCall == [op |-> "none"]

\* CacheService.__init__ (cache_service.py lines 17-20): no client; the store
\* is empty and no document is committed
CacheInit ==
    /\ cache_client = "none"
    /\ cache_store = EmptyDict
    /\ corpus = 0
    /\ call = NoCall

\* no wrapped function has been called, nothing is gathered, no pool is made
RetryIdle == [pc |-> "idle"]
WorkIdle == [pc |-> "idle"]
UnitsIdle == [pc |-> "idle"]
PoolIdle == [pc |-> "idle"]
TasksIdle == [pc |-> "idle"]
LifeIdle == [pc |-> "idle"]

UtilInit ==
    /\ retry = RetryIdle
    /\ work = WorkIdle
    /\ units = UnitsIdle
    /\ pool = PoolIdle
    /\ tasks = TasksIdle
    /\ life = LifeIdle

\* AsyncLimitMiddleware.__init__: no semaphore yet; no request in progress
AdmInit ==
    /\ semaphores = EmptyDict
    /\ req = [r \in RIds |-> IdleReq]

RateInit ==
    /\ now = 0
    /\ requests = EmptyDict
    /\ redis_available \in BOOLEAN
    /\ redis_client = "none"
    /\ started = FALSE
    /\ zsets = EmptyDict
    /\ zexpire = EmptyDict
    /\ hist = <<>>

\* the clock advances
Tick ==
    /\ now < MaxTime
    /\ now' = now + 1
    /\ UNCHANGED <<requests, redis_available, redis_client, started, zsets,
                   zexpire, policy, hist, semaphores, req>>
    /\ UNCHANGED cacheVars
    /\ UNCHANGED utilVars

(***************************************************************************)
(* SpecLocal: one caller with a fixed policy drives the in-memory limiter. *)
(***************************************************************************)
LocalCall(key) ==
    /\ Len(hist) < MaxCalls
    /\ LET r == LocalIsAllowed(requests, key, policy.limit, policy.window, now)
       IN  /\ requests' = r.requests
           /\ hist' = Append(hist, CallRec("local", "none", key, policy.limit,
                                           policy.window, now, r.ret, r.ret,
                                           FALSE, FALSE))
    /\ UNCHANGED <<now, redis_available, redis_client, started, zsets, zexpire, policy,
                   semaphores, req>>
    /\ UNCHANGED cacheVars
    /\ UNCHANGED utilVars

InitLocal ==
    /\ RateInit
    /\ AdmInit
    /\ CacheInit
    /\ UtilInit
    /\ policy \in [limit : Limits, window : Windows]

NextLocal ==
    \/ Tick
    \/ \E key \in Keys : LocalCall(key)

SpecLocal == InitLocal /\ [][NextLocal]_vars

(***************************************************************************)
(* lifespan startup: redis_limiter.connect(), called once; pingOk is       *)
(* whether the store answered the ping                                     *)
(***************************************************************************)
Connect ==
    /\ ~started
    /\ started' = TRUE
    /\ \E pingOk \in BOOLEAN :
         redis_client' = IF ~redis_available THEN redis_client
                         ELSE IF pingOk THEN "conn" ELSE "none"
    /\ UNCHANGED <<now, requests, redis_available, zsets, zexpire, policy, hist,
                   semaphores, req>>
    /\ UNCHANGED cacheVars
    /\ UNCHANGED utilVars

(***************************************************************************)
(* RedisRateLimiter.is_allowed.  Whether the store answers the pipeline is *)
(* decided at each call; when execute() raises, the store may or may not   *)
(* have executed the queued commands.                                      *)
(***************************************************************************)
RedisNoClient(key, limit, window, cls) ==
    /\ redis_client = "none" \/ ~redis_available
    /\ hist' = Append(hist, CallRec("redis", cls, key, limit, window, now,
                                    RedisUnavailableResult, RedisUnavailableResult,
                                    FALSE, FALSE))
    /\ UNCHANGED <<zsets, zexpire>>

RedisAnswered(key, limit, window, cls) ==
    /\ redis_client = "conn" /\ redis_available
    /\ LET p == Pipeline(zsets, zexpire, key, limit, window, now)
       IN  /\ zsets' = p.zsets
           /\ zexpire' = p.zexpire
           /\ hist' = Append(hist, CallRec("redis", cls, key, limit, window, now,
                                           RedisAnswer(p.count, limit),
                                           RedisAnswer(p.count, limit), TRUE, TRUE))

RedisRaised(key, limit, window, cls) ==
    /\ redis_client = "conn" /\ redis_available
    /\ \E executed \in BOOLEAN :
        LET p == Pipeline(zsets, zexpire, key, limit, window, now)
        IN  /\ zsets' = IF executed THEN p.zsets ELSE zsets
            /\ zexpire' = IF executed THEN p.zexpire ELSE zexpire
            /\ hist' = Append(hist, CallRec("redis", cls, key, limit, window, now,
                                            RedisErrorResult, RedisErrorResult,
                                            executed, FALSE))

RedisIsAllowed(key, limit, window, cls) ==
    \/ RedisNoClient(key, limit, window, cls)
    \/ RedisAnswered(key, limit, window, cls)
    \/ RedisRaised(key, limit, window, cls)

(***************************************************************************)
(* SpecRedis: one caller with a fixed policy drives the shared limiter,    *)
(* while the store comes and goes.                                         *)
(***************************************************************************)
RedisCall(key) ==
    /\ Len(hist) < MaxCalls
    /\ RedisIsAllowed(key, policy.limit, policy.window, "none")
    /\ UNCHANGED <<now, requests, redis_available, redis_client, started, policy,
                   semaphores, req>>
    /\ UNCHANGED cacheVars
    /\ UNCHANGED utilVars

InitRedis ==
    /\ RateInit
    /\ AdmInit
    /\ CacheInit
    /\ UtilInit
    /\ policy \in [limit : Limits, window : Windows]

NextRedis ==
    \/ Tick
    \/ Connect
    \/ \E key \in Keys : RedisCall(key)

SpecRedis == InitRedis /\ [][NextRedis]_vars

(***************************************************************************)
(* rate_limit_check and the two route dependencies.                        *)
(***************************************************************************)
\* RATE_LIMITS of rate_limiting.py, scaled to the model's clock
\* (query: 10 per 60 s, ingest: 5 per 300 s in the source)
RATE_LIMITS ==
    [query  |-> [limit |-> QueryLimit,  window |-> QueryWindow],
     ingest |-> [limit |-> IngestLimit, window |-> IngestWindow]]

Classes == {"query", "ingest"}

\* the requests: X-Forwarded-For as its comma separated items, X-Real-IP and
\* request.client.host ("" when absent)
HttpRequests ==
    {[forwarded_for |-> <<"a", "b">>, real_ip |-> "b", host |-> "b"],
     [forwarded_for |-> <<>>,         real_ip |-> "b", host |-> "a"],
     [forwarded_for |-> <<>>,         real_ip |-> "",  host |-> "a"],
     [forwarded_for |-> <<>>,         real_ip |-> "",  host |-> ""]}

get_client_ip(request) ==
    IF request.forwarded_for # <<>> THEN request.forwarded_for[1]
    ELSE IF request.real_ip # "" THEN request.real_ip
    ELSE IF request.host # "" THEN request.host
    ELSE "unknown"

\* each request reads an instant of the clock that no earlier request read
FreshInstant == IF Len(hist) = 0 THEN TRUE ELSE hist[Len(hist)].t < now

\* rate_limit_check, the in-memory branch (line 144)
CheckLocal(request, cls) ==
    /\ started
    /\ FreshInstant
    /\ Len(hist) < MaxChecks
    /\ ~(redis_client = "conn" /\ redis_available)
    /\ LET key == KeyOf(get_client_ip(request))
           lim == RATE_LIMITS[cls]
           r == LocalIsAllowed(requests, key, lim.limit, lim.window, now)
       IN  /\ requests' = r.requests
           /\ hist' = Append(hist, CallRec("local", cls, key, lim.limit, lim.window,
                                           now, r.ret, r.ret, FALSE, FALSE))
    /\ UNCHANGED <<now, redis_available, redis_client, started, zsets, zexpire, policy,
                   semaphores, req>>
    /\ UNCHANGED cacheVars
    /\ UNCHANGED utilVars

\* rate_limit_check, the Redis branch (line 142), the store answering
CheckShared(request, cls) ==
    /\ started
    /\ FreshInstant
    /\ Len(hist) < MaxChecks
    /\ LET key == KeyOf(get_client_ip(request))
           lim == RATE_LIMITS[cls]
       IN  RedisAnswered(key, lim.limit, lim.window, cls)
    /\ UNCHANGED <<now, requests, redis_available, redis_client, started, policy,
                   semaphores, req>>
    /\ UNCHANGED cacheVars
    /\ UNCHANGED utilVars

\* rate_limit_check, the Redis branch (line 142), execute() raising
CheckSharedRaised(request, cls) ==
    /\ started
    /\ FreshInstant
    /\ Len(hist) < MaxChecks
    /\ LET key == KeyOf(get_client_ip(request))
           lim == RATE_LIMITS[cls]
       IN  RedisRaised(key, lim.limit, lim.window, cls)
    /\ UNCHANGED <<now, requests, redis_available, redis_client, started, policy,
                   semaphores, req>>
    /\ UNCHANGED cacheVars
    /\ UNCHANGED utilVars

(***************************************************************************)
(* SpecCheck: clients call the query and ingest routes, each request at an *)
(* instant of its own; the store, when connected at startup, stays         *)
(* reachable.                                                              *)
(***************************************************************************)
InitCheck ==
    /\ RateInit
    /\ AdmInit
    /\ CacheInit
    /\ UtilInit
    /\ policy = [limit |-> 1, window |-> 1]

NextCheck ==
    \/ Tick
    \/ Connect
    \/ \E request \in HttpRequests : \E cls \in Classes : CheckLocal(request, cls)
    \/ \E request \in HttpRequests : \E cls \in Classes : CheckShared(request, cls)

SpecCheck == InitCheck /\ [][NextCheck]_vars

(***************************************************************************)
(* SpecParity: the same allow(key, limit, window) calls are given to both  *)
(* limiters at the same instants, each call at an instant of its own, the  *)
(* store connected and reachable.                                          *)
(***************************************************************************)
BothCall(key) ==
    /\ FreshInstant
    /\ Len(hist) < MaxCalls
    /\ redis_client = "conn" /\ redis_available
    /\ LET r == LocalIsAllowed(requests, key, policy.limit, policy.window, now)
           p == Pipeline(zsets, zexpire, key, policy.limit, policy.window, now)
       IN  /\ requests' = r.requests
           /\ zsets' = p.zsets
           /\ zexpire' = p.zexpire
           /\ hist' = Append(hist, CallRec("both", "none", key, policy.limit,
                                           policy.window, now, r.ret,
                                           RedisAnswer(p.count, policy.limit),
                                           TRUE, TRUE))
    /\ UNCHANGED <<now, redis_available, redis_client, started, policy, semaphores, req>>
    /\ UNCHANGED cacheVars
    /\ UNCHANGED utilVars

InitParity ==
    /\ RateInit
    /\ AdmInit
    /\ CacheInit
    /\ UtilInit
    /\ redis_available = TRUE
    /\ policy \in [limit : Limits, window : Windows]

NextParity ==
    \/ Tick
    \/ Connect
    \/ \E key \in Keys : BothCall(key)

SpecParity == InitParity /\ [][NextParity]_vars

(***************************************************************************)
(* AsyncLimitMiddleware (performance.py lines 57-99) inside                *)
(* PerformanceMiddleware (lines 10-54); main.py adds AsyncLimitMiddleware  *)
(* first, so PerformanceMiddleware is the outer of the two.                *)
(*                                                                         *)
(* A request record: pc is "idle", "handler" (inside self.app, holding a   *)
(* permit), "waiting" (suspended in semaphore.acquire) or "done"; age is   *)
(* the time since PerformanceMiddleware started its wait_for; sent lists   *)
(* the response starts passed to send: "own" (the wrapped application's),  *)
(* "429" or "408"; exit is how the request ended; released counts the      *)
(* releases of its permit; full tells whether the path's semaphore had no  *)
(* free permit when the request was checked.                               *)
(***************************************************************************)
StartsWith(path, prefix) == path[1] = prefix

\* get_semaphore lines 69-74
PathLimit(path) ==
    IF StartsWith(path, "/query") THEN QueryCap
    ELSE IF StartsWith(path, "/ingest") THEN IngestCap
    ELSE MaxConcurrent

\* get_semaphore making a new semaphore at every call
GetSemaphoreAlwaysNew(sems, path) == Put(sems, path, PathLimit(path))

\* get_semaphore lines 67-78
GetSemaphore(sems, path) ==
    IF path \notin DOMAIN sems THEN Put(sems, path, PathLimit(path)) ELSE sems

\* a semaphore that never reports locked
LockedNever(value) == FALSE

\* asyncio.Semaphore.locked() as tested on line 89
Locked(value) == value = 0

\* a release that returns no permit
ReleaseLeaks(sems, path) == sems

\* leaving `async with semaphore` (line 98): the permit goes back
Release(sems, path) == Put(sems, path, sems[path] + 1)

\* an except clause that catches every exception
CatchesEverything(exc) == TRUE

\* `except asyncio.TimeoutError` (line 48)
CatchesAsTimeout(exc) == exc = "TimeoutError"

\* PerformanceMiddleware lines 42-54: the exception leaving wait_for is
\* answered with the 408 response when the except clause catches it
OnException(exc, sent) == IF CatchesAsTimeout(exc) THEN Append(sent, "408") ELSE sent

\* the routes decorated with async_timeout (query.py line 20, ingest.py line
\* 20); 0 stands for no decorator
RouteTimeout(path) ==
    IF path = QueryPath THEN QueryTimeout
    ELSE IF path = IngestPath THEN IngestTimeout
    ELSE 0

InFlight(path) == {r \in RIds : req[r].pc = "handler" /\ req[r].path = path}

\* Request ids are interchangeable names: after every step the records are
\* put in one fixed order (idle ids last), so that two states that differ
\* only in the naming of the requests are one state.
PcOrder == <<"idle", "done", "waiting", "handler">>
PathOrder == <<NoPath, QueryPath, QuerySubPath, IngestPath, HealthPath>>
SentOrder == <<<<>>, <<"own">>, <<"429">>, <<"408">>, <<"own", "408">>>>
ExitOrder == <<"none", "rejected", "return", "raise", "raise_timeout", "cancelled">>

IndexOf(seq, x) == CHOOSE i \in 1..Len(seq) : seq[i] = x

GateOrder == <<"none", "allowed", "limited">>

RecCode(rec) ==
    ((((((IndexOf(PcOrder, rec.pc) * 16 + IndexOf(PathOrder, rec.path)) * 16
        + rec.age) * 16 + IndexOf(SentOrder, rec.sent)) * 16
        + IndexOf(ExitOrder, rec.exit)) * 4 + rec.released) * 4
        + IndexOf(GateOrder, rec.gate)) * 2 + (IF rec.body THEN 1 ELSE 0)

RECURSIVE InsertRec(_, _)
InsertRec(sorted, rec) ==
    IF sorted = <<>> THEN <<rec>>
    ELSE IF RecCode(rec) >= RecCode(Head(sorted)) THEN <<rec>> \o sorted
    ELSE <<Head(sorted)>> \o InsertRec(Tail(sorted), rec)

RECURSIVE SortRecs(_)
SortRecs(recs) ==
    IF recs = <<>> THEN <<>> ELSE InsertRec(SortRecs(Tail(recs)), Head(recs))

Canon(rq) == SortRecs(rq)

\* the record of a finished request is kept for one state only: nothing else
\* happens before Forget has cleared it
Settled == \A x \in RIds : req[x].pc # "done"

\* request r ends as rec; the record of the request that ended before it is
\* dropped, so that only the latest finished request is kept for inspection
Finish(rq, r, rec) ==
    Canon([x \in RIds |-> IF x = r THEN rec
                          ELSE IF rq[x].pc = "done" THEN IdleReq ELSE rq[x]])

\* request r leaves the `async with semaphore` block and ends as rec; a
\* request suspended in acquire on the same semaphore takes the permit
LeaveHandler(r, rec) ==
    LET path == req[r].path
        waiting == {w \in RIds : req[w].pc = "waiting" /\ req[w].path = path}
        released == Release(semaphores, path)
    IN  IF waiting = {}
        THEN /\ semaphores' = released
             /\ req' = Finish(req, r, rec)
        ELSE LET w == CHOOSE x \in waiting : TRUE
             IN  /\ semaphores' = Put(released, path, released[path] - 1)
                 /\ req' = Finish([req EXCEPT ![w].pc = "handler"], r, rec)

\* a request arrives and is given the lowest free request id:
\* PerformanceMiddleware starts wait_for, and AsyncLimitMiddleware.__call__
\* runs up to the first suspension (lines 85-98)
Arrive(r, path) ==
    /\ Settled
    /\ req[r].pc = "idle"
    /\ \A x \in 1..(r - 1) : req[x].pc # "idle"
    /\ LET sems == GetSemaphore(semaphores, path)
           fresh == [IdleReq EXCEPT !.path = path, !.full = (sems[path] = 0)]
       IN  IF Locked(sems[path])
           THEN /\ semaphores' = sems
                /\ req' = Finish(req, r, [fresh EXCEPT !.pc = "done",
                                                       !.sent = <<"429">>,
                                                       !.exit = "rejected"])
           ELSE IF sems[path] > 0
           THEN /\ semaphores' = Put(sems, path, sems[path] - 1)
                /\ req' = Canon([req EXCEPT ![r] = [fresh EXCEPT !.pc = "handler"]])
           ELSE /\ semaphores' = sems
                /\ req' = Canon([req EXCEPT ![r] = [fresh EXCEPT !.pc = "waiting"]])
    /\ UNCHANGED rateVars
    /\ UNCHANGED cacheVars
    /\ UNCHANGED utilVars

\* the wrapped application passes its response start to send_wrapper
HandlerStart(r) ==
    /\ Settled
    /\ req[r].pc = "handler"
    /\ req[r].sent = <<>>
    /\ req' = Canon([req EXCEPT ![r].sent = <<"own">>])
    /\ UNCHANGED <<semaphores>>
    /\ UNCHANGED rateVars
    /\ UNCHANGED cacheVars
    /\ UNCHANGED utilVars

\* the wrapped application returns after its response
HandlerReturn(r) ==
    /\ Settled
    /\ req[r].pc = "handler"
    /\ req[r].sent = <<"own">>
    /\ LeaveHandler(r, [req[r] EXCEPT !.pc = "done", !.exit = "return",
                                      !.released = @ + 1])
    /\ UNCHANGED rateVars
    /\ UNCHANGED cacheVars
    /\ UNCHANGED utilVars

\* the wrapped application raises an exception other than asyncio.TimeoutError
HandlerRaise(r) ==
    /\ Settled
    /\ req[r].pc = "handler"
    /\ LeaveHandler(r, [req[r] EXCEPT !.pc = "done", !.exit = "raise",
                                      !.released = @ + 1,
                                      !.sent = OnException("Exception", @)])
    /\ UNCHANGED rateVars
    /\ UNCHANGED cacheVars
    /\ UNCHANGED utilVars

\* the route's async_timeout expires and re-raises asyncio.TimeoutError
\* (async_optimization.py lines 110-114) before any response was started
HandlerRaiseTimeout(r) ==
    /\ Settled
    /\ req[r].pc = "handler"
    /\ req[r].sent = <<>>
    /\ RouteTimeout(req[r].path) > 0
    /\ req[r].age >= RouteTimeout(req[r].path)
    /\ LeaveHandler(r, [req[r] EXCEPT !.pc = "done", !.exit = "raise_timeout",
                                      !.released = @ + 1,
                                      !.sent = OnException("TimeoutError", @)])
    /\ UNCHANGED rateVars
    /\ UNCHANGED cacheVars
    /\ UNCHANGED utilVars

\* wait_for reaches max_request_time: the wrapped call is cancelled, unwinds
\* through `async with`, and wait_for raises asyncio.TimeoutError
RequestTimeout(r) ==
    /\ Settled
    /\ req[r].pc = "handler"
    /\ req[r].age >= MaxRequestTime
    /\ LeaveHandler(r, [req[r] EXCEPT !.pc = "done", !.exit = "cancelled",
                                      !.released = @ + 1,
                                      !.sent = OnException("TimeoutError", @)])
    /\ UNCHANGED rateVars
    /\ UNCHANGED cacheVars
    /\ UNCHANGED utilVars

\* time passes for the requests in progress; a wait_for timer that is due
\* fires before more time passes
Elapse ==
    /\ Settled
    /\ \E r \in RIds : req[r].pc \in {"handler", "waiting"}
    /\ \A r \in RIds : req[r].pc \in {"handler", "waiting"} => req[r].age < MaxRequestTime
    /\ req' = Canon([r \in RIds |-> IF req[r].pc \in {"handler", "waiting"}
                                     THEN [req[r] EXCEPT !.age = @ + 1] ELSE req[r]])
    /\ UNCHANGED <<semaphores>>
    /\ UNCHANGED rateVars
    /\ UNCHANGED cacheVars
    /\ UNCHANGED utilVars

\* the connection of a finished request is gone; the slot is free again
Forget(r) ==
    /\ req[r].pc = "done"
    /\ req' = Canon([req EXCEPT ![r] = IdleReq])
    /\ UNCHANGED <<semaphores>>
    /\ UNCHANGED rateVars
    /\ UNCHANGED cacheVars
    /\ UNCHANGED utilVars

(***************************************************************************)
(* SpecAdmit: requests arrive on any path, are admitted or rejected, and   *)
(* their handlers return, raise or run into a timeout.                     *)
(***************************************************************************)
InitAdmit ==
    /\ RateInit
    /\ redis_available = FALSE
    /\ policy = [limit |-> 1, window |-> 1]
    /\ AdmInit
    /\ CacheInit
    /\ UtilInit

NextAdmit ==
    \/ \E r \in RIds : \E path \in Paths : Arrive(r, path)
    \/ \E r \in RIds : HandlerStart(r)
    \/ \E r \in RIds : HandlerReturn(r)
    \/ \E r \in RIds : HandlerRaise(r)
    \/ \E r \in RIds : HandlerRaiseTimeout(r)
    \/ \E r \in RIds : RequestTimeout(r)
    \/ \E r \in RIds : Forget(r)
    \/ Elapse

SpecAdmit == InitAdmit /\ [][NextAdmit]_vars

(***************************************************************************)
(* SpecGate: the rate-limited routes behind the admission middleware. A    *)
(* request record's gate tells what its route dependency (query.py lines   *)
(* 14-19, ingest.py lines 14-19) found: "none" while rate_limit_check has  *)
(* not run, then "allowed" or "limited"; body tells whether the route      *)
(* function, which calls query_documents or ingest_document, was entered.  *)
(***************************************************************************)
RateLimitedPaths == {QueryPath, IngestPath}

\* the client of SpecGate, behind a proxy
GateRequests ==
    {[forwarded_for |-> <<"a", "b">>, real_ip |-> "b", host |-> "b"]}

\* the entry of RATE_LIMITS the dependency of the route reads
RouteClass(path) == IF path = QueryPath THEN "query" ELSE "ingest"

\* a rate_limit_check that never raises
NeverRaises(allowed) == FALSE

\* rate_limit_check lines 146-150: HTTPException(429) when not allowed
RaisesRateLimited(allowed) == ~allowed

\* the dependency's outcome for request r: when rate_limit_check raised, the
\* exception handler sends the 429 response, the application returns and the
\* permit goes back; otherwise the request goes on to the route function
AfterRateCheck(r, allowed) ==
    LET verdict == IF allowed THEN "allowed" ELSE "limited"
    IN  IF RaisesRateLimited(allowed)
        THEN LeaveHandler(r, [req[r] EXCEPT !.pc = "done", !.exit = "return",
                                            !.released = @ + 1,
                                            !.sent = <<"own">>,
                                            !.gate = verdict])
        ELSE /\ req' = Canon([req EXCEPT ![r].gate = verdict])
             /\ UNCHANGED semaphores

\* the dependency runs rate_limit_check, in-memory branch (line 144)
GateCheckLocal(r, request) ==
    /\ Settled
    /\ started
    /\ req[r].pc = "handler" /\ req[r].gate = "none"
    /\ req[r].path \in RateLimitedPaths
    /\ ~(redis_client = "conn" /\ redis_available)
    /\ LET lim == RATE_LIMITS[RouteClass(req[r].path)]
           res == LocalIsAllowed(requests, KeyOf(get_client_ip(request)),
                                 lim.limit, lim.window, now)
       IN  /\ requests' = res.requests
           /\ AfterRateCheck(r, res.ret)
    /\ UNCHANGED <<now, redis_available, redis_client, started, zsets, zexpire,
                   policy, hist>>
    /\ UNCHANGED cacheVars
    /\ UNCHANGED utilVars

\* the dependency runs rate_limit_check, Redis branch (line 142)
GateCheckShared(r, request) ==
    /\ Settled
    /\ started
    /\ req[r].pc = "handler" /\ req[r].gate = "none"
    /\ req[r].path \in RateLimitedPaths
    /\ redis_client = "conn" /\ redis_available
    /\ LET lim == RATE_LIMITS[RouteClass(req[r].path)]
           p == Pipeline(zsets, zexpire, KeyOf(get_client_ip(request)),
                         lim.limit, lim.window, now)
       IN  \E answered \in BOOLEAN : \E executed \in BOOLEAN :
             /\ answered => executed
             /\ zsets' = IF executed THEN p.zsets ELSE zsets
             /\ zexpire' = IF executed THEN p.zexpire ELSE zexpire
             /\ AfterRateCheck(r, IF answered THEN RedisAnswer(p.count, lim.limit)
                                  ELSE RedisErrorResult)
    /\ UNCHANGED <<now, requests, redis_available, redis_client, started,
                   policy, hist>>
    /\ UNCHANGED cacheVars
    /\ UNCHANGED utilVars

\* the dependency has returned: the route function is entered and calls the
\* retrieval and inference pipeline (query.py line 26, ingest.py line 26)
GateBody(r) ==
    /\ Settled
    /\ req[r].pc = "handler" /\ req[r].gate # "none" /\ ~req[r].body
    /\ req' = Canon([req EXCEPT ![r].body = TRUE])
    /\ UNCHANGED <<semaphores>>
    /\ UNCHANGED rateVars
    /\ UNCHANGED cacheVars
    /\ UNCHANGED utilVars

\* the route function's response is started, and the application returns
GateRespond(r) == req[r].body /\ HandlerStart(r)

GateReturn(r) == req[r].body /\ HandlerReturn(r)

\* a request to a rate-limited route arrives after startup
GateArrive(r, path) == started /\ Arrive(r, path)

InitGate ==
    /\ RateInit
    /\ policy = [limit |-> 1, window |-> 1]
    /\ AdmInit
    /\ CacheInit
    /\ UtilInit

NextGate ==
    \/ Tick
    \/ Connect
    \/ \E r \in RIds : \E path \in RateLimitedPaths : GateArrive(r, path)
    \/ \E r \in RIds : \E request \in GateRequests : GateCheckLocal(r, request)
    \/ \E r \in RIds : \E request \in GateRequests : GateCheckShared(r, request)
    \/ \E r \in RIds : GateBody(r)
    \/ \E r \in RIds : GateRespond(r)
    \/ \E r \in RIds : GateReturn(r)
    \/ \E r \in RIds : Forget(r)

SpecGate == InitGate /\ [][NextGate]_vars

(***************************************************************************)
(* CacheService._generate_cache_key (cache_service.py lines 39-48).        *)
(* A Python string is the sequence of its characters.  An argument value   *)
(* is a str, an int or None.                                               *)
(***************************************************************************)
StrV(s) == [tag |-> "str", s |-> s, n |-> 0]
IntV(n) == [tag |-> "int", s |-> <<>>, n |-> n]
NoneV == [tag |-> "none", s |-> <<>>, n |-> 0]

DecimalDigits == <<"0", "1", "2", "3", "4", "5", "6", "7", "8", "9">>

\* str() of a non-negative int
RECURSIVE IntStr(_)
IntStr(n) ==
    IF n < 10 THEN <<DecimalDigits[n + 1]>>
    ELSE IntStr(n \div 10) \o <<DecimalDigits[(n % 10) + 1]>>

\* str(arg) of line 42 and the {v} of the f-string of line 43
Str(v) ==
    CASE v.tag = "str" -> v.s
      [] v.tag = "int" -> IntStr(v.n)
      [] v.tag = "none" -> <<"N", "o", "n", "e">>

\* sep.join(parts)
RECURSIVE Join(_, _)
Join(parts, sep) ==
    IF parts = <<>> THEN <<>>
    ELSE IF Len(parts) = 1 THEN parts[1]
    ELSE parts[1] \o sep \o Join(Tail(parts), sep)

\* the characters of the keyword names, in code point order
CodePoints == <<"1", "_", "a", "c", "d", "e", "i", "k", "l", "m", "n", "o", "p", "r">>

Ord(c) == CHOOSE i \in 1..Len(CodePoints) : CodePoints[i] = c

\* a < b for two Python strings
RECURSIVE StrLess(_, _)
StrLess(a, b) ==
    IF b = <<>> THEN FALSE
    ELSE IF a = <<>> THEN TRUE
    ELSE IF Head(a) = Head(b) THEN StrLess(Tail(a), Tail(b))
    ELSE Ord(Head(a)) < Ord(Head(b))

RECURSIVE InsertItem(_, _)
InsertItem(sorted, item) ==
    IF sorted = <<>> THEN <<item>>
    ELSE IF StrLess(item.name, Head(sorted).name) THEN <<item>> \o sorted
    ELSE <<Head(sorted)>> \o InsertItem(Tail(sorted), item)

\* kwargs.items() left in the order of the call
ItemsUnsorted(kwargs) == kwargs

\* sorted(kwargs.items()) of line 43; kwargs is the sequence of the named
\* arguments [name, value] in the order of the call
RECURSIVE SortedItems(_)
SortedItems(kwargs) ==
    IF kwargs = <<>> THEN <<>>
    ELSE InsertItem(SortedItems(Tail(kwargs)), Head(kwargs))

\* lines 42-44: the canonical string that is hashed
KeyString(args, kwargs) ==
    LET items == SortedItems(kwargs)
        key_parts == [i \in 1..Len(args) |-> Str(args[i])]
                     \o [i \in 1..Len(items) |->
                            items[i].name \o <<"=">> \o Str(items[i].value)]
    IN  Join(key_parts, <<"|">>)

HexDigits == <<"0", "1", "2", "3", "4", "5", "6", "7", "8", "9",
               "a", "b", "c", "d", "e", "f">>

\* n written with width hexadecimal digits
RECURSIVE Hex(_, _)
Hex(n, width) ==
    IF width = 0 THEN <<>>
    ELSE Hex(n \div 16, width - 1) \o <<HexDigits[(n % 16) + 1]>>

DocIdName == <<"d", "o", "c", "_", "i", "d">>
KName == <<"k">>
ModelNameName == <<"m", "o", "d", "e", "l", "_", "n", "a", "m", "e">>

EmbeddingPrefix == <<"e", "m", "b", "e", "d", "d", "i", "n", "g">>
QueryPrefix == <<"q", "u", "e", "r", "y">>
SimilarityPrefix == <<"s", "i", "m", "i", "l", "a", "r", "i", "t", "y">>
Prefixes == {EmbeddingPrefix, QueryPrefix, SimilarityPrefix}

NoneText == <<"N", "o", "n", "e">>

\* the argument values the key derivation is tried on
ArgValues == {StrV(<<"a">>), StrV(NoneText), NoneV, IntV(1), StrV(<<"1">>)}
KValues == {IntV(1), StrV(<<"1">>), IntV(10)}

Kw(name, value) == [name |-> name, value |-> value]

\* the calls _generate_cache_key(prefix, *args, **kwargs) that are tried: one
\* or two positional arguments, and no named argument, doc_id alone, or
\* doc_id and k in either order
KeyInputs ==
    [args : {<<x>> : x \in ArgValues}
              \cup {<<StrV(<<"a">>), StrV(<<"1">>)>>, <<StrV(<<"1">>), StrV(<<"a">>)>>},
     kwargs : {<<>>}
              \cup {<<Kw(DocIdName, v)>> : v \in ArgValues}
              \cup {<<Kw(DocIdName, v), Kw(KName, w)>> : v \in ArgValues, w \in KValues}
              \cup {<<Kw(KName, w), Kw(DocIdName, v)>> : v \in ArgValues, w \in KValues}]

\* the questions, document ids and k of the queries, and the texts and the
\* model name of the embedding calls, that the cache layer is driven with
Questions == {<<"a">>, <<"a", "|", "d", "o", "c", "_", "i", "d", "=", "b">>}
DocIds == {NoneV, StrV(<<"b">>),
           StrV(<<"b", "|", "d", "o", "c", "_", "i", "d", "=", "N", "o", "n", "e">>)}
DefaultK == IntV(10)
Texts == {<<"A">>, <<"B">>, <<"C">>}
ModelName == StrV(<<"m">>)

\* named arguments of the calls of lines 56, 76, 97, 117, 138 and 158
QueryKwargs(doc_id, k) == <<Kw(DocIdName, doc_id), Kw(KName, k)>>
EmbeddingKwargs(model_name) == <<Kw(ModelNameName, model_name)>>

\* every canonical string the model hashes
KeyDomain ==
    {KeyString(i.args, i.kwargs) : i \in KeyInputs}
    \cup {KeyString(<<StrV(q)>>, QueryKwargs(d, DefaultK)) : q \in Questions, d \in DocIds}
    \cup {KeyString(<<StrV(t)>>, EmbeddingKwargs(ModelName)) : t \in Texts}

RECURSIVE Enumerate(_)
Enumerate(S) ==
    IF S = {} THEN <<>>
    ELSE LET x == CHOOSE y \in S : TRUE IN <<x>> \o Enumerate(S \ {x})

KeyEnum == Enumerate(KeyDomain)

\* the number of each hashed string in the enumeration
KeyNumber ==
    [key_string \in KeyDomain |->
        CHOOSE i \in 1..Len(KeyEnum) : KeyEnum[i] = key_string]

\* hashlib.sha256(key_string.encode()).hexdigest()[:16] (line 47): HashLen
\* hexadecimal digits; the digest is taken to be injective, so the number of
\* key_string in an enumeration of the hashed strings stands for it
Digest(key_string) ==
    Hex(KeyNumber[key_string] - 1, HashLen)

\* line 48
GenerateCacheKey(prefix, args, kwargs) ==
    prefix \o <<":">> \o Digest(KeyString(args, kwargs))

(***************************************************************************)
(* SpecKey: _generate_cache_key is called on each of the inputs.           *)
(***************************************************************************)
KeyCall(prefix, input) ==
    /\ call' = [op |-> "key", prefix |-> prefix, args |-> input.args,
                kwargs |-> input.kwargs,
                key_string |-> KeyString(input.args, input.kwargs),
                key |-> GenerateCacheKey(prefix, input.args, input.kwargs)]
    /\ UNCHANGED <<cache_client, cache_store, corpus>>
    /\ UNCHANGED <<semaphores, req>>
    /\ UNCHANGED rateVars
    /\ UNCHANGED utilVars

InitKey ==
    /\ RateInit
    /\ redis_available = FALSE
    /\ policy = [limit |-> 1, window |-> 1]
    /\ AdmInit
    /\ CacheInit
    /\ UtilInit

NextKey == \E prefix \in Prefixes : \E input \in KeyInputs : KeyCall(prefix, input)

SpecKey == InitKey /\ [][NextKey]_vars

(***************************************************************************)
(* CacheService: the get and set operations (cache_service.py lines        *)
(* 50-182) and invalidate_document_cache (lines 184-203).  The store maps  *)
(* a key to an entry [data, by]: data is the string that setex stored, by  *)
(* remembers the arguments of the call that wrote it.  Whether the store   *)
(* answers a command is decided at each command.                           *)
(***************************************************************************)
\* json.dumps and json.loads
Dumps(value) == <<"json", value>>
Loads(data) == data[2]

\* what a get returns: None, or the value that json.loads gave
Absent == [tag |-> "absent", v |-> <<>>]
Present(value) == [tag |-> "value", v |-> value]

\* Python truth of what a get returned: None and the empty list are false;
\* a query result is a dict with its two keys
Truthy(kind, got) ==
    /\ got.tag = "value"
    /\ kind # "query" => Len(got.v) > 0

KindPrefix(kind) ==
    CASE kind = "embedding" -> EmbeddingPrefix
      [] kind = "query" -> QueryPrefix
      [] kind = "similarity" -> SimilarityPrefix

\* the key of an operation of the given kind: lines 56 and 76 for an
\* embedding (subject is the text, scope the model name), lines 97, 117, 138
\* and 158 for a query or a similarity search (subject is the question,
\* scope the doc_id)
CacheKey(kind, subject, scope, k) ==
    IF kind = "embedding"
    THEN GenerateCacheKey(KindPrefix(kind), <<StrV(subject)>>, EmbeddingKwargs(scope))
    ELSE GenerateCacheKey(KindPrefix(kind), <<StrV(subject)>>, QueryKwargs(scope, k))

\* a get whose except branch lets the exception out
GetOnErrorRaises == [ret |-> Absent, escaped |-> TRUE]

\* the except branches of the gets (lines 66-68, 107-109, 148-150)
GetOnError == [ret |-> Absent, escaped |-> FALSE]

\* a set whose except branch reports success
SetOnErrorSucceeds == [ret |-> TRUE, escaped |-> FALSE]

\* the except branches of the sets (lines 87-89, 128-130, 180-182)
SetOnError == [ret |-> FALSE, escaped |-> FALSE]

\* get_embedding_cache, get_query_cache, get_similarity_search_cache:
\* outcome is "ok" when the store answers and "raised" when the command
\* raises
CacheGet(client, store, key, outcome) ==
    IF client = "none" THEN [ret |-> Absent, escaped |-> FALSE, reached |-> "unreachable"]
    ELSE IF outcome = "raised"
    THEN [ret |-> GetOnError.ret, escaped |-> GetOnError.escaped, reached |-> "raised"]
    ELSE IF key \in DOMAIN store
    THEN [ret |-> Present(Loads(store[key].data)), escaped |-> FALSE, reached |-> "ok"]
    ELSE [ret |-> Absent, escaped |-> FALSE, reached |-> "ok"]

\* a document as set_similarity_search_cache stores it (lines 163-170): an
\* object with page_content and metadata becomes a dict of the two
SerializeDoc(doc) ==
    IF doc.type # "dict"
    THEN [type |-> "dict", page_content |-> doc.page_content, metadata |-> doc.metadata]
    ELSE doc

\* the string given to setex (lines 82, 123, 175)
StoredData(kind, value) ==
    IF kind = "similarity"
    THEN Dumps([i \in 1..Len(value) |-> SerializeDoc(value[i])])
    ELSE Dumps(value)

\* a set that reports success and writes nothing
CacheSetDropsWrite(client, store, key, kind, value, by, outcome, executed) ==
    [store |-> store, ret |-> TRUE, escaped |-> FALSE, reached |-> "ok"]

\* set_embedding_cache, set_query_cache, set_similarity_search_cache; when
\* setex raises, the store may or may not have executed it
CacheSet(client, store, key, kind, value, by, outcome, executed) ==
    LET written == Put(store, key, [data |-> StoredData(kind, value), by |-> by])
    IN  IF client = "none"
        THEN [store |-> store, ret |-> FALSE, escaped |-> FALSE, reached |-> "unreachable"]
        ELSE IF outcome = "raised"
        THEN [store |-> IF executed THEN written ELSE store,
              ret |-> SetOnError.ret, escaped |-> SetOnError.escaped,
              reached |-> "raised"]
        ELSE [store |-> written, ret |-> TRUE, escaped |-> FALSE, reached |-> "ok"]

\* hay has needle as a contiguous part
Contains(hay, needle) ==
    \E i \in 1..(Len(hay) - Len(needle) + 1) :
        SubSeq(hay, i, i + Len(needle) - 1) = needle

\* KEYS f"{prefix}:*doc_id={doc_id}*" (lines 191-197): the keys that start
\* with the prefix and ':' and have doc_id=<doc_id> somewhere after it
KeysMatching(store, prefix, doc_id) ==
    LET head == prefix \o <<":">>
        needle == DocIdName \o <<"=">> \o doc_id
    IN  {key \in DOMAIN store :
            /\ Len(key) >= Len(head)
            /\ SubSeq(key, 1, Len(head)) = head
            /\ Contains(SubSeq(key, Len(head) + 1, Len(key)), needle)}

Without(store, keys) == [key \in (DOMAIN store) \ keys |-> store[key]]

\* a delete issued whatever KEYS returned
DeleteAlways(keys) == TRUE

\* line 198: `if keys:`
ShouldDelete(keys) == keys # {}

\* the loop of lines 196-200 over the patterns still to do, the commands
\* numbered as they are issued: command number failAt raises (0: none does).
\* The result is the store, the number of delete commands issued and
\* whether a command raised.
RECURSIVE InvalidateLoop(_, _, _, _, _, _)
InvalidateLoop(store, patterns, doc_id, issued, deletes, failAt) ==
    IF patterns = <<>> THEN [store |-> store, deletes |-> deletes, raised |-> FALSE]
    ELSE IF failAt = issued + 1 THEN [store |-> store, deletes |-> deletes, raised |-> TRUE]
    ELSE LET keys == KeysMatching(store, Head(patterns), doc_id)
         IN  IF ~ShouldDelete(keys)
             THEN InvalidateLoop(store, Tail(patterns), doc_id, issued + 1, deletes, failAt)
             ELSE IF failAt = issued + 2
             THEN [store |-> store, deletes |-> deletes + 1, raised |-> TRUE]
             ELSE InvalidateLoop(Without(store, keys), Tail(patterns), doc_id,
                                 issued + 2, deletes + 1, failAt)

\* invalidate_document_cache (lines 184-203)
InvalidateDocumentCache(client, store, doc_id, failAt) ==
    IF client = "none"
    THEN [store |-> store, deletes |-> 0, escaped |-> FALSE, reached |-> "unreachable"]
    ELSE LET res == InvalidateLoop(store, <<QueryPrefix, SimilarityPrefix>>, doc_id,
                                   0, 0, failAt)
         IN  [store |-> res.store, deletes |-> res.deletes, escaped |-> FALSE,
              reached |-> IF res.raised THEN "raised" ELSE "ok"]

(***************************************************************************)
(* query_documents (query_service.py lines 7-80).  The vector store and    *)
(* the language model are functions of what they are given: the search of  *)
(* the question, k, the filter and the documents committed so far; the     *)
(* answer of the prompt, which holds the context and the question.         *)
(***************************************************************************)
\* lines 48-50: `if doc_id:` builds the filter
FilterKwargs(doc_id) ==
    IF doc_id.tag = "str" /\ doc_id.s # <<>> THEN <<doc_id.s>> ELSE <<>>

\* vectorstore.similarity_search(question, k=k, **filter_kwargs) (line 52)
SimilaritySearch(question, k, filter_kwargs, committed) ==
    IF committed = 0 THEN <<>>
    ELSE <<[type |-> "Document",
            page_content |-> [found_for |-> question, filter |-> filter_kwargs,
                              among |-> committed],
            metadata |-> filter_kwargs]>>

\* line 45: the cached dicts become objects again
Reconstruct(cached_docs) ==
    [i \in 1..Len(cached_docs) |->
        [type |-> "SimpleNamespace", page_content |-> cached_docs[i].page_content,
         metadata |-> cached_docs[i].metadata]]

\* lines 57-63: the page contents, joined
Context(docs) == [i \in 1..Len(docs) |-> docs[i].page_content]

\* lines 66-75
QueryResult(context, question) ==
    [answer |-> [answer_to |-> question, from |-> context], context |-> context]

\* query_documents without any cache
NoCacheAnswer(question, doc_id, k, committed) ==
    QueryResult(Context(SimilaritySearch(question, k, FilterKwargs(doc_id), committed)),
                question)

Outcomes == {"ok", "raised"}

\* what the store does at each of the four cache commands of one query:
\* get_query, get_similarity, set_similarity, set_query
StorePatterns ==
    [get_query : Outcomes, get_similarity : Outcomes,
     set_similarity : Outcomes, set_query : Outcomes, executed : BOOLEAN]

\* without a client no command is issued
NoCommand ==
    [get_query |-> "ok", get_similarity |-> "ok", set_similarity |-> "ok",
     set_query |-> "ok", executed |-> FALSE]

\* query_documents lines 14-80 with a question and PGVECTOR_CONN set;
\* query_got and similarity_got tell whether the lookup of lines 22 and 41
\* returned a stored value, searched whether line 52 ran
QueryDocuments(client, store, question, doc_id, k, committed, o) ==
    LET by(kind) == [kind |-> kind, subject |-> question, scope |-> doc_id,
                     committed |-> committed]
        qkey == CacheKey("query", question, doc_id, k)
        skey == CacheKey("similarity", question, doc_id, k)
        cached_result == CacheGet(client, store, qkey, o.get_query)
        cached_docs == CacheGet(client, store, skey, o.get_similarity)
        searched == SimilaritySearch(question, k, FilterKwargs(doc_id), committed)
        docs == IF Truthy("similarity", cached_docs.ret)
                THEN Reconstruct(cached_docs.ret.v) ELSE searched
        set_docs == IF Truthy("similarity", cached_docs.ret)
                    THEN [store |-> store, escaped |-> FALSE]
                    ELSE CacheSet(client, store, skey, "similarity", searched,
                                  by("similarity"), o.set_similarity, o.executed)
        result == QueryResult(Context(docs), question)
        set_result == CacheSet(client, set_docs.store, qkey, "query", result,
                               by("query"), o.set_query, o.executed)
        query_got == cached_result.ret.tag = "value"
        similarity_got == cached_docs.ret.tag = "value"
        search_ran == ~Truthy("similarity", cached_docs.ret)
    IN  IF cached_result.escaped
        THEN [store |-> store, ret |-> Absent, escaped |-> TRUE, source |-> "none",
              query_got |-> FALSE, similarity_got |-> FALSE, searched |-> FALSE]
        ELSE IF Truthy("query", cached_result.ret)
        THEN [store |-> store, ret |-> cached_result.ret, escaped |-> FALSE,
              source |-> "cache",
              query_got |-> TRUE, similarity_got |-> FALSE, searched |-> FALSE]
        ELSE IF cached_docs.escaped
        THEN [store |-> store, ret |-> Absent, escaped |-> TRUE, source |-> "none",
              query_got |-> query_got, similarity_got |-> FALSE, searched |-> FALSE]
        ELSE IF set_docs.escaped
        THEN [store |-> set_docs.store, ret |-> Absent, escaped |-> TRUE, source |-> "none",
              query_got |-> query_got, similarity_got |-> similarity_got,
              searched |-> search_ran]
        ELSE [store |-> set_result.store,
              ret |-> IF set_result.escaped THEN Absent ELSE Present(result),
              escaped |-> set_result.escaped, source |-> "pipeline",
              query_got |-> query_got, similarity_got |-> similarity_got,
              searched |-> search_ran]

(***************************************************************************)
(* SpecCache: clients call connect, the gets and sets of the three kinds,  *)
(* and invalidate_document_cache, in any order; entries expire.            *)
(***************************************************************************)
Kinds == {"embedding", "query", "similarity"}

\* the embedding the provider computes for a text
EmbeddingOf(text) == <<[embedding_of |-> text]>>

\* the arguments the operations of a kind are called with
CacheArgs(kind) ==
    IF kind = "embedding"
    THEN {[subject |-> t, scope |-> ModelName] : t \in {<<"A">>, <<"B">>}}
    ELSE {[subject |-> <<"a">>, scope |-> d] : d \in {NoneV, StrV(<<"b">>)}}

\* the value a set of a kind is given
CacheValue(kind, a) ==
    CASE kind = "embedding" -> EmbeddingOf(a.subject)
      [] kind = "query" -> NoCacheAnswer(a.subject, a.scope, DefaultK, 1)
      [] kind = "similarity" ->
            SimilaritySearch(a.subject, DefaultK, FilterKwargs(a.scope), 1)

\* connect (lines 22-31)
CacheConnect ==
    /\ \E pingOk \in BOOLEAN : cache_client' = IF pingOk THEN "conn" ELSE "none"
    /\ UNCHANGED <<cache_store, corpus, call>>
    /\ UNCHANGED <<semaphores, req>>
    /\ UNCHANGED rateVars
    /\ UNCHANGED utilVars

CacheGetCall(kind, a) ==
    /\ \E outcome \in Outcomes :
         LET res == CacheGet(cache_client, cache_store,
                             CacheKey(kind, a.subject, a.scope, DefaultK), outcome)
         IN  call' = [op |-> "get", kind |-> kind, args |-> a, reached |-> res.reached,
                      ret |-> res.ret, escaped |-> res.escaped]
    /\ UNCHANGED <<cache_client, cache_store, corpus>>
    /\ UNCHANGED <<semaphores, req>>
    /\ UNCHANGED rateVars
    /\ UNCHANGED utilVars

CacheSetCall(kind, a) ==
    /\ \E outcome \in Outcomes : \E executed \in BOOLEAN :
         LET res == CacheSet(cache_client, cache_store,
                             CacheKey(kind, a.subject, a.scope, DefaultK), kind,
                             CacheValue(kind, a),
                             [kind |-> kind, subject |-> a.subject, scope |-> a.scope,
                              committed |-> 1],
                             outcome, executed)
         IN  /\ cache_store' = res.store
             /\ call' = [op |-> "set", kind |-> kind, args |-> a, reached |-> res.reached,
                         ret |-> res.ret, escaped |-> res.escaped]
    /\ UNCHANGED <<cache_client, corpus>>
    /\ UNCHANGED <<semaphores, req>>
    /\ UNCHANGED rateVars
    /\ UNCHANGED utilVars

\* the document ids invalidate_document_cache is called with
InvalidatedIds == {<<"b">>, <<"c">>}

\* the commands one invalidation can issue: KEYS and DELETE for each pattern
MaxCommands == 4

CacheInvalidateCall(doc_id) ==
    /\ \E failAt \in 0..MaxCommands :
         LET res == InvalidateDocumentCache(cache_client, cache_store, doc_id, failAt)
         IN  /\ cache_store' = res.store
             /\ call' = [op |-> "invalidate", doc_id |-> doc_id, reached |-> res.reached,
                         deletes |-> res.deletes, escaped |-> res.escaped,
                         before |-> cache_store, after |-> res.store]
    /\ UNCHANGED <<cache_client, corpus>>
    /\ UNCHANGED <<semaphores, req>>
    /\ UNCHANGED rateVars
    /\ UNCHANGED utilVars

\* the TTL given to setex (lines 77-83) runs out
CacheExpire(key) ==
    /\ key \in DOMAIN cache_store
    /\ cache_store' = Without(cache_store, {key})
    /\ UNCHANGED <<cache_client, corpus, call>>
    /\ UNCHANGED <<semaphores, req>>
    /\ UNCHANGED rateVars
    /\ UNCHANGED utilVars

InitCache ==
    /\ RateInit
    /\ redis_available = FALSE
    /\ policy = [limit |-> 1, window |-> 1]
    /\ AdmInit
    /\ CacheInit
    /\ UtilInit

NextCache ==
    \/ CacheConnect
    \/ \E kind \in Kinds : \E a \in CacheArgs(kind) : CacheGetCall(kind, a)
    \/ \E kind \in Kinds : \E a \in CacheArgs(kind) : CacheSetCall(kind, a)
    \/ \E doc_id \in InvalidatedIds : CacheInvalidateCall(doc_id)
    \/ \E key \in DOMAIN cache_store : CacheExpire(key)

SpecCache == InitCache /\ [][NextCache]_vars

(***************************************************************************)
(* SpecQuery: clients query an unchanged document set through              *)
(* query_documents while the cache's store comes, goes and fails.          *)
(***************************************************************************)
\* the payloads: a question and a doc_id (QueryRequest, schemas.py lines 4-6)
QueryInputs ==
    {[question |-> <<"a">>, doc_id |-> StrV(<<"b">>)],
     [question |-> <<"a">>,
      doc_id |-> StrV(<<"b", "|", "d", "o", "c", "_", "i", "d", "=", "N", "o", "n", "e">>)],
     [question |-> <<"a", "|", "d", "o", "c", "_", "i", "d", "=", "b">>, doc_id |-> NoneV]}

QueryCall(input) ==
    /\ \E o \in (IF cache_client = "none" THEN {NoCommand} ELSE StorePatterns) :
         \E res \in {QueryDocuments(cache_client, cache_store, input.question,
                                    input.doc_id, DefaultK, corpus, o)} :
             /\ cache_store' = res.store
             /\ call' = [op |-> "query", question |-> input.question,
                         doc_id |-> input.doc_id, ret |-> res.ret,
                         escaped |-> res.escaped, source |-> res.source,
                         query_got |-> res.query_got,
                         similarity_got |-> res.similarity_got,
                         searched |-> res.searched]
    /\ UNCHANGED <<cache_client, corpus>>
    /\ UNCHANGED <<semaphores, req>>
    /\ UNCHANGED rateVars
    /\ UNCHANGED utilVars

InitQuery ==
    /\ RateInit
    /\ redis_available = FALSE
    /\ policy = [limit |-> 1, window |-> 1]
    /\ AdmInit
    /\ cache_client = "none"
    /\ cache_store = EmptyDict
    /\ corpus \in 0..1
    /\ call = NoCall
    /\ UtilInit

NextQuery ==
    \/ CacheConnect
    \/ \E input \in QueryInputs : QueryCall(input)
    \/ \E key \in DOMAIN cache_store : CacheExpire(key)

SpecQuery == InitQuery /\ [][NextQuery]_vars

(***************************************************************************)
(* SpecIngest: as SpecQuery, with documents being ingested                 *)
(* (ingest_service.py lines 19-76).                                        *)
(***************************************************************************)
\* ingest_document: an unsupported file type returns an error (lines 38-40);
\* otherwise the document and its chunks are committed (lines 59-69) and the
\* function returns (lines 71-76)
IngestDocument(supported) ==
    /\ corpus < MaxCorpus
    /\ corpus' = IF supported THEN corpus + 1 ELSE corpus
    /\ call' = [op |-> "ingest", status |-> IF supported THEN "success" ELSE "error"]
    /\ UNCHANGED <<cache_client, cache_store>>
    /\ UNCHANGED <<semaphores, req>>
    /\ UNCHANGED rateVars
    /\ UNCHANGED utilVars

\* the payloads of SpecIngest
IngestQueries ==
    {[question |-> <<"a">>, doc_id |-> NoneV],
     [question |-> <<"a">>, doc_id |-> StrV(<<"b">>)]}

InitIngest ==
    /\ RateInit
    /\ redis_available = FALSE
    /\ policy = [limit |-> 1, window |-> 1]
    /\ AdmInit
    /\ CacheInit
    /\ UtilInit

NextIngest ==
    \/ CacheConnect
    \/ \E input \in IngestQueries : QueryCall(input)
    \/ \E supported \in BOOLEAN : IngestDocument(supported)
    \/ \E key \in DOMAIN cache_store : CacheExpire(key)

SpecIngest == InitIngest /\ [][NextIngest]_vars

(***************************************************************************)
(* CachedEmbeddings (cached_embeddings.py).  The provider is the wrapped   *)
(* embeddings object: its async method and its sync method each return the *)
(* vectors of the texts they are given, or raise.                          *)
(***************************************************************************)
\* the vectors the provider returns for a batch
ProviderVectors(batch) == [j \in 1..Len(batch) |-> EmbeddingOf(batch[j])]

\* a vector stored by an earlier writer (another model version)
EarlierVector(text) == <<[stored_for |-> text]>>

\* the placeholder of line 33
Placeholder == <<>>

\* a provider called once, its failure raised
ProviderCallsOnce(async_method, sync_method, batch, asyncOk, syncOk) ==
    [invocations |-> <<[method |-> async_method, texts |-> batch]>>, ok |-> asyncOk]

\* lines 40-49 and 76-85: the async method is awaited; when it raises, the
\* sync method is called with the same argument, outside any try
ProviderCalls(async_method, sync_method, batch, asyncOk, syncOk) ==
    IF asyncOk
    THEN [invocations |-> <<[method |-> async_method, texts |-> batch]>>, ok |-> TRUE]
    ELSE [invocations |-> <<[method |-> async_method, texts |-> batch],
                            [method |-> sync_method, texts |-> batch]>>,
          ok |-> syncOk]

\* the gets of lines 28-29: the get of text number failGet raises in the store
GetAll(client, store, texts, failGet) ==
    [i \in 1..Len(texts) |->
        CacheGet(client, store, CacheKey("embedding", texts[i], ModelName, DefaultK),
                 IF i = failGet THEN "raised" ELSE "ok").ret]

\* the sets of lines 52-53, from text number j on: the set of text number
\* failSet raises in the store, which has executed it or not; s is the store
\* after the set of text number j
RECURSIVE SetAll(_, _, _, _, _, _, _)
SetAll(client, store, batch, vectors, j, failSet, executed) ==
    IF j > Len(batch) \/ j > Len(vectors) THEN store
    ELSE CHOOSE after \in
           {SetAll(client, s, batch, vectors, j + 1, failSet, executed) :
              s \in {CacheSet(client, store,
                              CacheKey("embedding", batch[j], ModelName, DefaultK),
                              "embedding", vectors[j],
                              [kind |-> "embedding", subject |-> batch[j],
                               scope |-> ModelName, committed |-> 0],
                              IF j = failSet THEN "raised" ELSE "ok",
                              executed).store}} : TRUE

\* a splice that puts the j-th new vector at position j
SpliceInOrder(uncached_indices, j) == j

\* line 54: results[uncached_indices[i]] = embedding
SpliceIndex(uncached_indices, j) == uncached_indices[j]

\* lines 28-35, from text number i on: the positions of the texts whose get
\* returned nothing true
RECURSIVE UncachedIndices(_, _)
UncachedIndices(got, i) ==
    IF i > Len(got) THEN <<>>
    ELSE IF Truthy("embedding", got[i]) THEN UncachedIndices(got, i + 1)
    ELSE <<i>> \o UncachedIndices(got, i + 1)

\* lines 52-54, from new embedding number j on; r is the list after the
\* assignment of line 54
RECURSIVE Splice(_, _, _, _)
Splice(results, uncached_indices, new_embeddings, j) ==
    IF j > Len(new_embeddings) THEN results
    ELSE CHOOSE spliced \in
           {Splice(r, uncached_indices, new_embeddings, j + 1) :
              r \in {[results EXCEPT
                        ![SpliceIndex(uncached_indices, j)] = new_embeddings[j]]}} : TRUE

\* aembed_documents (lines 18-56)
AembedDocuments(client, store, texts, failGet, asyncOk, syncOk, failSet, executed) ==
    LET got == GetAll(client, store, texts, failGet)
        results == [i \in 1..Len(texts) |->
                      IF Truthy("embedding", got[i]) THEN got[i].v ELSE Placeholder]
        uncached_indices == UncachedIndices(got, 1)
        uncached_texts == [j \in 1..Len(uncached_indices) |-> texts[uncached_indices[j]]]
        provider == ProviderCalls("aembed_documents", "embed_documents",
                                  uncached_texts, asyncOk, syncOk)
        new_embeddings == ProviderVectors(uncached_texts)
    IN  IF texts = <<>>
        THEN [store |-> store, got |-> <<>>, invocations |-> <<>>, raised |-> FALSE,
              result |-> <<>>, sets |-> <<>>]
        ELSE IF uncached_texts = <<>>
        THEN [store |-> store, got |-> got, invocations |-> <<>>, raised |-> FALSE,
              result |-> results, sets |-> <<>>]
        ELSE IF ~provider.ok
        THEN [store |-> store, got |-> got, invocations |-> provider.invocations,
              raised |-> TRUE, result |-> <<>>, sets |-> <<>>]
        ELSE [store |-> SetAll(client, store, uncached_texts, new_embeddings, 1,
                               failSet, executed),
              got |-> got, invocations |-> provider.invocations, raised |-> FALSE,
              result |-> Splice(results, uncached_indices, new_embeddings, 1),
              sets |-> uncached_texts]

\* a lookup whose result is never used
QueryNeverHit(cached_embedding) == FALSE

\* line 69: if cached_embedding
QueryHit(cached_embedding) == Truthy("embedding", cached_embedding)

\* aembed_query (lines 64-93); sets are the texts set_embedding_cache was
\* called for
AembedQuery(client, store, text, failGet, asyncOk, syncOk, failSet, executed) ==
    LET got == GetAll(client, store, <<text>>, failGet)
        provider == ProviderCalls("aembed_query", "embed_query", <<text>>,
                                  asyncOk, syncOk)
        embedding == EmbeddingOf(text)
    IN  IF QueryHit(got[1])
        THEN [store |-> store, got |-> got, invocations |-> <<>>, raised |-> FALSE,
              result |-> <<got[1].v>>, sets |-> <<>>]
        ELSE IF ~provider.ok
        THEN [store |-> store, got |-> got, invocations |-> provider.invocations,
              raised |-> TRUE, result |-> <<>>, sets |-> <<>>]
        ELSE [store |-> SetAll(client, store, <<text>>, <<embedding>>, 1, failSet, executed),
              got |-> got, invocations |-> provider.invocations, raised |-> FALSE,
              result |-> <<embedding>>, sets |-> <<text>>]

\* the longest list aembed_documents is called with
MaxTexts == 3

\* the texts the wrapper is called with
EmbedTexts == {<<"A">>, <<"B">>}

RECURSIVE ListsUpTo(_, _)
ListsUpTo(S, n) ==
    IF n = 0 THEN {<<>>}
    ELSE LET shorter == ListsUpTo(S, n - 1)
         IN  shorter \cup {Append(l, x) : l \in {m \in shorter : Len(m) = n - 1}, x \in S}

TextLists == ListsUpTo(EmbedTexts, MaxTexts)

\* the store faults one call can meet: none where there is no client
Faults(client, n) == IF client = "none" THEN {0} ELSE 0..n

\* set_embedding_cache called by an earlier writer with its own vector
EarlierSet(text) ==
    /\ cache_store' = CacheSet(cache_client, cache_store,
                               CacheKey("embedding", text, ModelName, DefaultK),
                               "embedding", EarlierVector(text),
                               [kind |-> "embedding", subject |-> text,
                                scope |-> ModelName, committed |-> 0],
                               "ok", TRUE).store
    /\ UNCHANGED <<cache_client, corpus, call>>
    /\ UNCHANGED <<semaphores, req>>
    /\ UNCHANGED rateVars
    /\ UNCHANGED utilVars

\* one awaited call of aembed_documents
AembedDocumentsCall(texts) ==
    /\ call = NoCall
    /\ \E failGet \in Faults(cache_client, Len(texts)) :
       \E failSet \in Faults(cache_client, Len(texts)) :
       \E executed \in IF failSet = 0 THEN {FALSE} ELSE BOOLEAN :
       \E asyncOk \in BOOLEAN : \E syncOk \in IF asyncOk THEN {TRUE} ELSE BOOLEAN :
         \E res \in {AembedDocuments(cache_client, cache_store, texts, failGet,
                                      asyncOk, syncOk, failSet, executed)} :
             /\ cache_store' = res.store
             /\ call' = [op |-> "aembed_documents", texts |-> texts, got |-> res.got,
                         invocations |-> res.invocations, raised |-> res.raised,
                         result |-> res.result, async_failed |-> ~asyncOk,
                         sync_failed |-> ~syncOk, sets |-> res.sets,
                         get_fault |-> failGet, set_fault |-> failSet,
                         client |-> cache_client,
                         before |-> cache_store, after |-> res.store]
    /\ UNCHANGED <<cache_client, corpus>>
    /\ UNCHANGED <<semaphores, req>>
    /\ UNCHANGED rateVars
    /\ UNCHANGED utilVars

\* one awaited call of aembed_query
AembedQueryCall(text) ==
    /\ call = NoCall
    /\ \E failGet \in Faults(cache_client, 1) :
       \E failSet \in Faults(cache_client, 1) :
       \E executed \in IF failSet = 0 THEN {FALSE} ELSE BOOLEAN :
       \E asyncOk \in BOOLEAN : \E syncOk \in IF asyncOk THEN {TRUE} ELSE BOOLEAN :
         \E res \in {AembedQuery(cache_client, cache_store, text, failGet,
                                  asyncOk, syncOk, failSet, executed)} :
             /\ cache_store' = res.store
             /\ call' = [op |-> "aembed_query", texts |-> <<text>>, got |-> res.got,
                         invocations |-> res.invocations, raised |-> res.raised,
                         result |-> res.result, async_failed |-> ~asyncOk,
                         sync_failed |-> ~syncOk, sets |-> res.sets,
                         get_fault |-> failGet, set_fault |-> failSet,
                         client |-> cache_client,
                         before |-> cache_store, after |-> res.store]
    /\ UNCHANGED <<cache_client, corpus>>
    /\ UNCHANGED <<semaphores, req>>
    /\ UNCHANGED rateVars
    /\ UNCHANGED utilVars

\* the caller has the result of the call (lines 56 and 93) or its exception
EmbedReturn ==
    /\ call # NoCall
    /\ call' = NoCall
    /\ UNCHANGED <<cache_client, cache_store, corpus>>
    /\ UNCHANGED <<semaphores, req>>
    /\ UNCHANGED rateVars
    /\ UNCHANGED utilVars

InitEmbed == InitCache

NextEmbed ==
    \/ CacheConnect
    \/ \E text \in EmbedTexts : EarlierSet(text)
    \/ \E texts \in TextLists : AembedDocumentsCall(texts)
    \/ \E text \in EmbedTexts : AembedQueryCall(text)
    \/ EmbedReturn
    \/ \E key \in DOMAIN cache_store : CacheExpire(key)

SpecEmbed == InitEmbed /\ [][NextEmbed]_vars

(***************************************************************************)
(* async_retry (async_optimization.py lines 80-103): the wrapper of a      *)
(* function that returns or raises each time it is awaited.                *)
(***************************************************************************)
\* the largest max_retries a function is wrapped with
MaxRetries == 2

\* delay of the two routes (query.py line 21, ingest.py line 21), seconds
Delays == {1, 2}

\* backoff (line 80)
Backoff == 2

\* what the wrapped function raises
ExceptionKinds == {"ValueError", "ConnectionError"}

NoException == [attempt |-> -1, kind |-> "none"]
NoOutcome == [kind |-> "none"]

\* a wrapper that never takes the last failure for the last
NeverExhausted(attempt, max_retries) == FALSE

\* line 93: if attempt == max_retries
Exhausted(attempt, max_retries) == attempt = max_retries

\* lines 85-88: the wrapper is awaited and enters the loop
RetryStart(max_retries, delay) ==
    [pc |-> "attempt", max_retries |-> max_retries, attempt |-> 0,
     current_delay |-> delay, calls |-> 0, failures |-> <<>>, slept |-> <<>>,
     sleep_left |-> 0, last_exception |-> NoException, out |-> NoOutcome]

\* line 90: func is awaited
RetryInvoked(r) == [r EXCEPT !.pc = "running", !.calls = @ + 1]

\* line 90: func has returned, and the wrapper returns its result
RetryReturned(r) ==
    [r EXCEPT !.pc = "returned", !.out = [kind |-> "value", attempt |-> r.attempt]]

\* lines 91-97: func has raised e
RetryRaised(r, kind) ==
    LET e == [attempt |-> r.attempt, kind |-> kind]
    IN  IF Exhausted(r.attempt, r.max_retries)
        THEN [r EXCEPT !.pc = "raised", !.failures = Append(@, kind),
                       !.last_exception = e, !.out = [kind |-> "raise", exc |-> e]]
        ELSE [r EXCEPT !.pc = "sleeping", !.failures = Append(@, kind),
                       !.last_exception = e, !.sleep_left = r.current_delay]

\* line 98: one second of asyncio.sleep(current_delay) passes
RetrySlept(r) == [r EXCEPT !.sleep_left = @ - 1]

\* lines 98-99, then the next turn of the loop of line 88, or line 101 when
\* the range is used up
RetryWoken(r) ==
    IF r.attempt + 1 < r.max_retries + 1
    THEN [r EXCEPT !.pc = "attempt", !.attempt = @ + 1,
                   !.slept = Append(@, r.current_delay),
                   !.current_delay = @ * Backoff]
    ELSE [r EXCEPT !.pc = "raised", !.slept = Append(@, r.current_delay),
                   !.current_delay = @ * Backoff,
                   !.out = [kind |-> "raise", exc |-> r.last_exception]]

RetryFrame ==
    /\ UNCHANGED <<work, units, pool, tasks, life>>
    /\ UNCHANGED <<semaphores, req>>
    /\ UNCHANGED rateVars
    /\ UNCHANGED cacheVars

RetryCall(max_retries, delay) ==
    /\ retry = RetryIdle
    /\ retry' = RetryStart(max_retries, delay)
    /\ RetryFrame

RetryInvoke ==
    /\ retry.pc = "attempt"
    /\ retry' = RetryInvoked(retry)
    /\ RetryFrame

RetryFuncReturn ==
    /\ retry.pc = "running"
    /\ retry' = RetryReturned(retry)
    /\ RetryFrame

RetryFuncRaise(kind) ==
    /\ retry.pc = "running"
    /\ retry' = RetryRaised(retry, kind)
    /\ RetryFrame

RetryTick ==
    /\ retry.pc = "sleeping"
    /\ retry.sleep_left > 0
    /\ retry' = RetrySlept(retry)
    /\ RetryFrame

RetryWake ==
    /\ retry.pc = "sleeping"
    /\ retry.sleep_left = 0
    /\ retry' = RetryWoken(retry)
    /\ RetryFrame

\* the caller has the result or the exception of the wrapper
RetryForget ==
    /\ retry.pc \in {"returned", "raised"}
    /\ retry' = RetryIdle
    /\ RetryFrame

InitRetry ==
    /\ RateInit
    /\ redis_available = FALSE
    /\ policy = [limit |-> 1, window |-> 1]
    /\ AdmInit
    /\ CacheInit
    /\ UtilInit

NextRetry ==
    \/ \E max_retries \in 0..MaxRetries : \E delay \in Delays :
         RetryCall(max_retries, delay)
    \/ RetryInvoke
    \/ RetryFuncReturn
    \/ \E kind \in ExceptionKinds : RetryFuncRaise(kind)
    \/ RetryTick
    \/ RetryWake
    \/ RetryForget

SpecRetry == InitRetry /\ [][NextRetry]_vars

(***************************************************************************)
(* async_timeout (async_optimization.py lines 105-116) and the two routes: *)
(* the endpoint of POST /query is async_timeout(25.0) around               *)
(* async_retry(max_retries=2, delay=1.0) around the route function         *)
(* (query.py lines 19-31), that of POST /ingest async_timeout(60.0) around *)
(* async_retry(max_retries=1, delay=2.0) (ingest.py lines 19-31).  The     *)
(* dependency of line 19 runs before the endpoint is called.  Time is in   *)
(* seconds from the call of the endpoint.  No except clause of the routes  *)
(* or of async_retry catches the cancellation (`except Exception`).        *)
(***************************************************************************)
QuerySeconds == 25
IngestSeconds == 60
QueryRetries == 2
IngestRetries == 1
QueryDelay == 1
IngestDelay == 2

\* max_request_time of PerformanceMiddleware (main.py line 55)
CeilingSeconds == 30

RouteSeconds(path) == IF path = QueryPath THEN QuerySeconds ELSE IngestSeconds
\* an endpoint without retries
RouteNoRetries(path) == 0

\* max_retries of the two endpoints (query.py line 21, ingest.py line 21)
RouteRetries(path) == IF path = QueryPath THEN QueryRetries ELSE IngestRetries
RouteDelay(path) == IF path = QueryPath THEN QueryDelay ELSE IngestDelay

TimeoutError == [attempt |-> -1, kind |-> "TimeoutError"]

\* a wait_for whose timer never fires
NeverExpired(elapsed, timeout) == FALSE

\* asyncio.wait_for(..., timeout=timeout) (line 111): the timer is due
Expired(elapsed, timeout) == elapsed >= timeout

\* an endpoint that runs the dependency again at every attempt
AttemptChecksRate(reqs, key, limit, window, t) ==
    LocalIsAllowed(reqs, key, limit, window, t).requests

\* what an attempt of the route function does to the limiter's lists: the
\* dependency is outside the decorated function (query.py lines 19-22)
AttemptRateState(reqs, key, limit, window, t) == reqs

\* the wrapper of async_timeout is awaited (line 111)
WorkStart(path) ==
    [pc |-> "running", path |-> path, timeout |-> RouteSeconds(path), elapsed |-> 0,
     out |-> NoOutcome, at |-> 0, status |-> 0]

RouteFrame ==
    /\ UNCHANGED <<units, pool, tasks, life>>
    /\ UNCHANGED <<now, redis_available, redis_client, started, zsets, zexpire,
                   policy, hist>>
    /\ UNCHANGED cacheVars

\* a request arrives when no other is in progress
RouteArrive(r, path) ==
    /\ \A x \in RIds : req[x].pc = "idle"
    /\ GateArrive(r, path)

\* the dependency has returned: the endpoint is called
RouteEnter(r) ==
    /\ Settled
    /\ req[r].pc = "handler" /\ req[r].gate # "none" /\ ~req[r].body
    /\ work = WorkIdle
    /\ req' = Canon([req EXCEPT ![r].body = TRUE])
    /\ work' = WorkStart(req[r].path)
    /\ retry' = RetryStart(RouteRetries(req[r].path), RouteDelay(req[r].path))
    /\ UNCHANGED <<semaphores, requests>>
    /\ RouteFrame

\* the route function is called and awaits the pipeline (lines 24-26)
RouteInvoke(request) ==
    /\ work.pc = "running" /\ retry.pc = "attempt"
    /\ ~Expired(work.elapsed, work.timeout)
    /\ retry' = RetryInvoked(retry)
    /\ LET lim == RATE_LIMITS[RouteClass(work.path)]
       IN  requests' = AttemptRateState(requests, KeyOf(get_client_ip(request)),
                                        lim.limit, lim.window, now)
    /\ UNCHANGED <<semaphores, req, work>>
    /\ RouteFrame

\* the pipeline returns and the route function returns its result (line 28)
RoutePipelineReturn ==
    /\ work.pc = "running" /\ retry.pc = "running"
    /\ ~Expired(work.elapsed, work.timeout)
    /\ retry' = RetryReturned(retry)
    /\ UNCHANGED <<semaphores, req, work, requests>>
    /\ RouteFrame

\* the pipeline raises, and the route function raises HTTPException(500) in
\* its place (lines 29-31)
RoutePipelineRaise ==
    /\ work.pc = "running" /\ retry.pc = "running"
    /\ ~Expired(work.elapsed, work.timeout)
    /\ retry' = RetryRaised(retry, "HTTPException")
    /\ UNCHANGED <<semaphores, req, work, requests>>
    /\ RouteFrame

\* a second passes while the pipeline or the sleep of the retry is awaited;
\* a timer that is due fires before more time passes
RouteTick ==
    /\ work.pc = "running"
    /\ ~Expired(work.elapsed, work.timeout)
    /\ work.elapsed < CeilingSeconds
    /\ \/ retry.pc = "running" /\ retry' = retry
       \/ retry.pc = "sleeping" /\ retry.sleep_left > 0 /\ retry' = RetrySlept(retry)
    /\ work' = [work EXCEPT !.elapsed = @ + 1]
    /\ UNCHANGED <<semaphores, req, requests>>
    /\ RouteFrame

\* the sleep of the retry is over (async_optimization.py lines 98-99)
RouteWake ==
    /\ work.pc = "running"
    /\ ~Expired(work.elapsed, work.timeout)
    /\ retry.pc = "sleeping" /\ retry.sleep_left = 0
    /\ retry' = RetryWoken(retry)
    /\ UNCHANGED <<semaphores, req, work, requests>>
    /\ RouteFrame

\* the wrapper of async_retry has returned or raised: wait_for gives the
\* same to the wrapper of async_timeout, which lets it through (line 111)
RouteFinish ==
    /\ work.pc = "running"
    /\ retry.pc \in {"returned", "raised"}
    /\ work' = [work EXCEPT !.pc = "done", !.out = retry.out, !.at = work.elapsed]
    /\ UNCHANGED <<semaphores, req, retry, requests>>
    /\ RouteFrame

\* the timer of wait_for fires on unfinished work: the work is cancelled
RouteExpire ==
    /\ work.pc = "running"
    /\ retry.pc \in {"attempt", "running", "sleeping"}
    /\ Expired(work.elapsed, work.timeout)
    /\ work' = [work EXCEPT !.pc = "cancelling"]
    /\ UNCHANGED <<semaphores, req, retry, requests>>
    /\ RouteFrame

\* the cancelled work has ended: wait_for raises asyncio.TimeoutError, which
\* the wrapper logs and raises again (lines 112-114)
RouteCancelled ==
    /\ work.pc = "cancelling"
    /\ retry' = [retry EXCEPT !.pc = "cancelled"]
    /\ work' = [work EXCEPT !.pc = "done", !.at = work.elapsed,
                            !.out = [kind |-> "raise", exc |-> TimeoutError]]
    /\ UNCHANGED <<semaphores, req, requests>>
    /\ RouteFrame

\* the wait_for of PerformanceMiddleware is due first: it cancels the call
\* of the application, the endpoint with it, and the 408 response is sent
RouteCeiling(r) ==
    /\ Settled
    /\ req[r].pc = "handler" /\ req[r].body
    /\ work.pc = "running"
    /\ work.elapsed >= CeilingSeconds
    /\ retry' = [retry EXCEPT !.pc = "cancelled"]
    /\ work' = [work EXCEPT !.pc = "responded", !.at = work.elapsed,
                            !.out = [kind |-> "cancelled"], !.status = 408]
    /\ LeaveHandler(r, [req[r] EXCEPT !.pc = "done", !.exit = "cancelled",
                                      !.released = @ + 1,
                                      !.sent = OnException("TimeoutError", @)])
    /\ UNCHANGED requests
    /\ RouteFrame

\* what leaves the endpoint reaches the client: its result as the 200
\* response, HTTPException(500) as the 500 response of the framework, and
\* asyncio.TimeoutError as PerformanceMiddleware answers it
RouteRespond(r) ==
    /\ Settled
    /\ req[r].pc = "handler" /\ req[r].body
    /\ work.pc = "done"
    /\ IF work.out.kind = "value"
       THEN /\ work' = [work EXCEPT !.pc = "responded", !.status = 200]
            /\ LeaveHandler(r, [req[r] EXCEPT !.pc = "done", !.exit = "return",
                                              !.released = @ + 1, !.sent = <<"own">>])
       ELSE IF work.out.exc.kind = "HTTPException"
       THEN /\ work' = [work EXCEPT !.pc = "responded", !.status = 500]
            /\ LeaveHandler(r, [req[r] EXCEPT !.pc = "done", !.exit = "return",
                                              !.released = @ + 1, !.sent = <<"own">>])
       ELSE /\ work' = [work EXCEPT !.pc = "responded", !.status = 408]
            /\ LeaveHandler(r, [req[r] EXCEPT !.pc = "done", !.exit = "raise_timeout",
                                              !.released = @ + 1,
                                              !.sent = OnException("TimeoutError", @)])
    /\ UNCHANGED <<retry, requests>>
    /\ RouteFrame

\* the connection of the finished request is gone
RouteForget(r) ==
    /\ req[r].pc = "done"
    /\ req' = Canon([req EXCEPT ![r] = IdleReq])
    /\ work' = WorkIdle
    /\ retry' = RetryIdle
    /\ UNCHANGED <<semaphores, requests>>
    /\ RouteFrame

InitRoute ==
    /\ RateInit
    /\ policy = [limit |-> 1, window |-> 1]
    /\ AdmInit
    /\ CacheInit
    /\ UtilInit

NextRoute ==
    \/ Connect
    \/ \E r \in RIds : \E path \in RateLimitedPaths : RouteArrive(r, path)
    \/ \E r \in RIds : \E request \in GateRequests : GateCheckLocal(r, request)
    \/ \E r \in RIds : \E request \in GateRequests : GateCheckShared(r, request)
    \/ \E r \in RIds : RouteEnter(r)
    \/ \E request \in GateRequests : RouteInvoke(request)
    \/ RoutePipelineReturn
    \/ RoutePipelineRaise
    \/ RouteTick
    \/ RouteWake
    \/ RouteFinish
    \/ RouteExpire
    \/ RouteCancelled
    \/ \E r \in RIds : RouteCeiling(r)
    \/ \E r \in RIds : RouteRespond(r)
    \/ \E r \in RIds : RouteForget(r)

SpecRoute == InitRoute /\ [][NextRoute]_vars

(***************************************************************************)
(* gather_with_concurrency (async_optimization.py lines 118-126): every    *)
(* coroutine is wrapped in sem_coro and all are given to asyncio.gather,   *)
(* called without return_exceptions.  A unit is "waiting" (its sem_coro is *)
(* in `async with semaphore`, the coroutine not yet awaited), "running",   *)
(* "ok" or "failed".                                                       *)
(***************************************************************************)
\* the longest coro_list and the largest max_concurrency
MaxUnits == 4
MaxSlots == 2

\* leaving `async with semaphore` by an exception without a release
LeakOnRaise(value) == value

\* leaving `async with semaphore` (lines 123-124), by return or by exception
SemRelease(value) == value + 1

Unfinished(state) == {i \in 1..Len(state) : state[i] \in {"waiting", "running"}}

\* lines 120 and 126: the semaphore is made and the wrapped units are
\* gathered
GatherStart(n, m) ==
    [pc |-> "gathering", m |-> m, value |-> m, state |-> [i \in 1..n |-> "waiting"],
     out |-> NoOutcome, left |-> 0]

\* asyncio.gather: the caller is given the results once every unit has
\* returned, and the first exception as soon as it is raised
Gathered(u) ==
    IF u.pc # "gathering" THEN u
    ELSE IF \E i \in 1..Len(u.state) : u.state[i] = "failed"
    THEN [u EXCEPT !.pc = "delivered",
                   !.out = [kind |-> "raise",
                            of |-> CHOOSE i \in 1..Len(u.state) : u.state[i] = "failed"],
                   !.left = Cardinality(Unfinished(u.state))]
    ELSE IF \A i \in 1..Len(u.state) : u.state[i] = "ok"
    THEN [u EXCEPT !.pc = "delivered", !.out = [kind |-> "value"], !.left = 0]
    ELSE u

GatherFrame ==
    /\ UNCHANGED <<retry, work, pool, tasks, life>>
    /\ UNCHANGED <<semaphores, req>>
    /\ UNCHANGED rateVars
    /\ UNCHANGED cacheVars

GatherCall(n, m) ==
    /\ units = UnitsIdle
    /\ units' = Gathered(GatherStart(n, m))
    /\ GatherFrame

\* the semaphore has a free slot: the sem_coro that has waited longest
\* takes it and awaits its coroutine (lines 123-124)
UnitStart(i) ==
    /\ units.pc # "idle"
    /\ i \in 1..Len(units.state)
    /\ units.state[i] = "waiting"
    /\ \A j \in 1..(i - 1) : units.state[j] # "waiting"
    /\ units.value > 0
    /\ units' = [units EXCEPT !.state[i] = "running", !.value = @ - 1]
    /\ GatherFrame

UnitReturn(i) ==
    /\ units.pc # "idle"
    /\ i \in 1..Len(units.state)
    /\ units.state[i] = "running"
    /\ units' = Gathered([units EXCEPT !.state[i] = "ok", !.value = SemRelease(@)])
    /\ GatherFrame

UnitRaise(i) ==
    /\ units.pc # "idle"
    /\ i \in 1..Len(units.state)
    /\ units.state[i] = "running"
    /\ units' = Gathered([units EXCEPT !.state[i] = "failed", !.value = SemRelease(@)])
    /\ GatherFrame

\* the caller has its answer and every unit has ended
GatherForget ==
    /\ units.pc = "delivered"
    /\ Unfinished(units.state) = {}
    /\ units' = UnitsIdle
    /\ GatherFrame

InitGather ==
    /\ RateInit
    /\ redis_available = FALSE
    /\ policy = [limit |-> 1, window |-> 1]
    /\ AdmInit
    /\ CacheInit
    /\ UtilInit

NextGather ==
    \/ \E n \in 0..MaxUnits : \E m \in 1..MaxSlots : GatherCall(n, m)
    \/ \E i \in 1..MaxUnits : UnitStart(i)
    \/ \E i \in 1..MaxUnits : UnitReturn(i)
    \/ \E i \in 1..MaxUnits : UnitRaise(i)
    \/ GatherForget

\* the event loop runs a sem_coro that can take a slot, and a unit that is
\* running comes to its end
SpecGather ==
    /\ InitGather
    /\ [][NextGather]_vars
    /\ \A i \in 1..MaxUnits : WF_vars(UnitStart(i))
    /\ \A i \in 1..MaxUnits : WF_vars(UnitReturn(i) \/ UnitRaise(i))

(***************************************************************************)
(* ConnectionPool (async_optimization.py lines 128-158).  Callers are      *)
(* counted by where they are: `held` have a connection, `creating` has the *)
(* lock and awaits create_connection, `blocked` has the lock and awaits    *)
(* pool.get(), `queued` await the lock.  Every caller that was given a     *)
(* connection returns it once; `made` counts the connections that          *)
(* create_connection has returned and close_connection has not closed.     *)
(***************************************************************************)
\* the largest max_size and the most callers inside the pool at once
MaxPool == 3
MaxCallers == 4

\* lines 131-136
PoolStart(max_size) ==
    [pc |-> "open", max_size |-> max_size, current_size |-> 0, idle |-> 0, held |-> 0,
     creating |-> 0, blocked |-> 0, queued |-> 0, made |-> 0]

LockFree(p) == p.creating = 0 /\ p.blocked = 0

Callers(p) == p.held + p.creating + p.blocked + p.queued

\* lines 143-147, run by the caller that has the lock
UnderLock(p) ==
    IF p.current_size < p.max_size
    THEN [p EXCEPT !.current_size = @ + 1, !.creating = 1]
    ELSE [p EXCEPT !.blocked = 1]

PoolFrame ==
    /\ UNCHANGED <<retry, work, units, tasks, life>>
    /\ UNCHANGED <<semaphores, req>>
    /\ UNCHANGED rateVars
    /\ UNCHANGED cacheVars

PoolOpen(max_size) ==
    /\ pool = PoolIdle
    /\ pool' = PoolStart(max_size)
    /\ PoolFrame

\* get_connection, line 141: an idle connection is taken from the queue
GetIdle ==
    /\ pool.pc = "open"
    /\ Callers(pool) < MaxCallers
    /\ pool.idle > 0
    /\ pool' = [pool EXCEPT !.idle = @ - 1, !.held = @ + 1]
    /\ PoolFrame

\* get_connection, lines 142-143: the queue is empty and the caller goes
\* for the lock, which it is given at once when it is free and nobody waits
\* for it
GetMiss ==
    /\ pool.pc = "open"
    /\ Callers(pool) < MaxCallers
    /\ pool.idle = 0
    /\ pool' = IF LockFree(pool) /\ pool.queued = 0
               THEN UnderLock(pool)
               ELSE [pool EXCEPT !.queued = @ + 1]
    /\ PoolFrame

\* the lock is free and a caller that awaited it goes on at line 144
LockGrant ==
    /\ pool.pc = "open"
    /\ pool.queued > 0
    /\ LockFree(pool)
    /\ pool' = UnderLock([pool EXCEPT !.queued = @ - 1])
    /\ PoolFrame

\* line 146: create_connection returns the new connection
CreateReturn ==
    /\ pool.pc = "open"
    /\ pool.creating = 1
    /\ pool' = [pool EXCEPT !.creating = 0, !.held = @ + 1, !.made = @ + 1]
    /\ PoolFrame

\* line 146: create_connection raises and get_connection with it
CreateRaise ==
    /\ pool.pc = "open"
    /\ pool.creating = 1
    /\ pool' = [pool EXCEPT !.creating = 0]
    /\ PoolFrame

\* line 148: pool.get() returns a connection that was put back
BlockedWake ==
    /\ pool.pc = "open"
    /\ pool.blocked = 1
    /\ pool.idle > 0
    /\ pool' = [pool EXCEPT !.blocked = 0, !.idle = @ - 1, !.held = @ + 1]
    /\ PoolFrame

\* return_connection, lines 150-158
ReturnConnection ==
    /\ pool.pc = "open"
    /\ pool.held > 0
    /\ IF pool.idle < pool.max_size
       THEN pool' = [pool EXCEPT !.held = @ - 1, !.idle = @ + 1]
       ELSE /\ LockFree(pool)
            /\ pool' = [pool EXCEPT !.held = @ - 1, !.current_size = @ - 1,
                                    !.made = @ - 1]
    /\ PoolFrame

\* the pool is dropped when no caller is inside it
PoolForget ==
    /\ pool.pc = "open"
    /\ Callers(pool) = 0
    /\ pool' = PoolIdle
    /\ PoolFrame

InitPool == InitGather

NextPool ==
    \/ \E max_size \in 1..MaxPool : PoolOpen(max_size)
    \/ GetIdle
    \/ GetMiss
    \/ LockGrant
    \/ CreateReturn
    \/ CreateRaise
    \/ BlockedWake
    \/ ReturnConnection
    \/ PoolForget

SpecPool == InitPool /\ [][NextPool]_vars

(***************************************************************************)
(* Concurrent callers of InMemoryRateLimiter.is_allowed (rate_limiting.py  *)
(* lines 32-58).  Each task takes self.lock and runs the body, which is    *)
(* cut in three steps so that bodies could interleave if the lock let      *)
(* them: the pruning, the check of the limit, the recording.               *)
(***************************************************************************)
\* the most tasks that call is_allowed at once
MaxTasks == 3

\* the key all tasks use
TaskKey == KeyOf("a")

\* a lock that lets every task in
LockIgnored(holder) == TRUE

\* asyncio.Lock (line 35): `async with self.lock` goes on when nobody holds it
LockAvailable(holder) == holder = 0

TaskStart == [pc |-> "start", now |-> 0, ret |-> "none"]

TasksStart(n) == [pc |-> "running", lock |-> 0, of |-> [i \in 1..n |-> TaskStart]]

TasksFrame ==
    /\ UNCHANGED <<retry, work, units, pool, life>>
    /\ UNCHANGED <<semaphores, req>>
    /\ UNCHANGED <<now, redis_available, redis_client, started, zsets, zexpire,
                   policy, hist>>
    /\ UNCHANGED cacheVars

\* n tasks call is_allowed(key, limit, window)
TasksCall(n) ==
    /\ tasks = TasksIdle
    /\ tasks' = TasksStart(n)
    /\ UNCHANGED requests
    /\ TasksFrame

\* line 39: async with self.lock
TaskAcquire(i) ==
    /\ tasks.pc = "running"
    /\ i \in 1..Len(tasks.of)
    /\ tasks.of[i].pc = "start"
    /\ LockAvailable(tasks.lock)
    /\ tasks' = [tasks EXCEPT !.lock = i, !.of[i].pc = "locked"]
    /\ UNCHANGED requests
    /\ TasksFrame

\* lines 40-50: now = time.time() and the key's list is pruned or made
TaskClean(i) ==
    /\ tasks.pc = "running"
    /\ i \in 1..Len(tasks.of)
    /\ tasks.of[i].pc = "locked"
    /\ requests' = Put(requests, TaskKey,
                       IF TaskKey \in DOMAIN requests
                       THEN CleanOld(requests[TaskKey], now - policy.window)
                       ELSE <<>>)
    /\ tasks' = [tasks EXCEPT !.of[i].pc = "cleaned", !.of[i].now = now]
    /\ TasksFrame

\* lines 53-54: the limit is reached, False is returned and the lock released
TaskReject(i) ==
    /\ tasks.pc = "running"
    /\ i \in 1..Len(tasks.of)
    /\ tasks.of[i].pc = "cleaned"
    /\ Len(requests[TaskKey]) >= policy.limit
    /\ tasks' = [tasks EXCEPT !.lock = 0, !.of[i].pc = "done", !.of[i].ret = FALSE]
    /\ UNCHANGED requests
    /\ TasksFrame

\* line 53: the limit is not reached
TaskPass(i) ==
    /\ tasks.pc = "running"
    /\ i \in 1..Len(tasks.of)
    /\ tasks.of[i].pc = "cleaned"
    /\ Len(requests[TaskKey]) < policy.limit
    /\ tasks' = [tasks EXCEPT !.of[i].pc = "passed"]
    /\ UNCHANGED requests
    /\ TasksFrame

\* lines 57-58: the instant is recorded, True is returned and the lock released
TaskRecord(i) ==
    /\ tasks.pc = "running"
    /\ i \in 1..Len(tasks.of)
    /\ tasks.of[i].pc = "passed"
    /\ requests' = Put(requests, TaskKey, Append(requests[TaskKey], tasks.of[i].now))
    /\ tasks' = [tasks EXCEPT !.lock = 0, !.of[i].pc = "done", !.of[i].ret = TRUE]
    /\ TasksFrame

\* all calls are made within one window, from an empty window
InitTasks ==
    /\ RateInit
    /\ redis_available = FALSE
    /\ AdmInit
    /\ CacheInit
    /\ UtilInit
    /\ policy \in [limit : Limits, window : {MaxTime + 1}]

NextTasks ==
    \/ Tick
    \/ \E n \in 1..MaxTasks : TasksCall(n)
    \/ \E i \in 1..MaxTasks : TaskAcquire(i)
    \/ \E i \in 1..MaxTasks : TaskClean(i)
    \/ \E i \in 1..MaxTasks : TaskReject(i)
    \/ \E i \in 1..MaxTasks : TaskPass(i)
    \/ \E i \in 1..MaxTasks : TaskRecord(i)

SpecTasks == InitTasks /\ [][NextTasks]_vars

(***************************************************************************)
(* lifespan (main.py lines 23-42) and the requests served between its      *)
(* startup and its shutdown.  life counts the calls of connect() and of    *)
(* close() made on each store, the requests handled, and the runs of       *)
(* query_documents made while connect() had not been invoked on the cache  *)
(* store.                                                                  *)
(***************************************************************************)
\* the calls of cache_service.connect() made by the startup, lines 26-35
StartupCacheConnects == 0

\* the calls of cache_service.disconnect() made by the shutdown, lines 39-42
ShutdownCacheCloses == 0

LifeStart ==
    [pc |-> "serving", rate_connects |-> 1, cache_connects |-> StartupCacheConnects,
     rate_closes |-> 0, cache_closes |-> 0, handled |-> 0, unconnected |-> 0]

LifeFrame ==
    /\ UNCHANGED <<retry, work, units, pool, tasks>>
    /\ UNCHANGED <<semaphores, req>>
    /\ UNCHANGED <<now, redis_available, policy>>
    /\ UNCHANGED cacheVars

\* lines 26-35: the startup awaits redis_limiter.connect() (lines 66-78)
LifeStartup ==
    /\ life = LifeIdle
    /\ ~started
    /\ started' = TRUE
    /\ \E pingOk \in BOOLEAN :
         redis_client' = IF ~redis_available THEN redis_client
                         ELSE IF pingOk THEN "conn" ELSE "none"
    /\ life' = LifeStart
    /\ UNCHANGED <<requests, zsets, zexpire, hist>>
    /\ LifeFrame

\* a request handled by query_documents reads the cache (query_service.py
\* line 22) whether or not connect() was ever invoked on it
Handled(l, cls, admitted) ==
    [l EXCEPT !.handled = @ + 1,
              !.unconnected =
                  IF /\ admitted
                     /\ cls = "query"
                     /\ l.cache_connects = 0
                     /\ CacheGet(cache_client, cache_store,
                                 CacheKey("query", <<"a">>, NoneV, DefaultK),
                                 "ok").reached = "unreachable"
                  THEN @ + 1 ELSE @]

\* a request served through the in-memory limiter (rate_limiting.py line 144)
LifeRequestLocal(request, cls) ==
    /\ life.pc = "serving"
    /\ FreshInstant
    /\ Len(hist) < MaxChecks
    /\ ~(redis_client = "conn" /\ redis_available)
    /\ LET key == KeyOf(get_client_ip(request))
           lim == RATE_LIMITS[cls]
           r == LocalIsAllowed(requests, key, lim.limit, lim.window, now)
       IN  /\ requests' = r.requests
           /\ hist' = Append(hist, CallRec("local", cls, key, lim.limit, lim.window,
                                           now, r.ret, r.ret, FALSE, FALSE))
           /\ life' = Handled(life, cls, r.ret)
    /\ UNCHANGED <<redis_client, started, zsets, zexpire>>
    /\ LifeFrame

\* a request served through the shared limiter (rate_limiting.py line 142)
LifeRequestShared(request, cls) ==
    /\ life.pc = "serving"
    /\ FreshInstant
    /\ Len(hist) < MaxChecks
    /\ LET key == KeyOf(get_client_ip(request))
           lim == RATE_LIMITS[cls]
       IN  /\ RedisAnswered(key, lim.limit, lim.window, cls)
           /\ life' = Handled(life, cls, hist'[Len(hist')].ret)
    /\ UNCHANGED <<requests, redis_client, started>>
    /\ LifeFrame

\* lines 39-42: the shutdown closes the limiter's client when there is one
LifeShutdown ==
    /\ life.pc = "serving"
    /\ life' = [life EXCEPT !.pc = "stopped",
                            !.rate_closes = IF redis_client = "conn" THEN @ + 1 ELSE @,
                            !.cache_closes = @ + ShutdownCacheCloses]
    /\ UNCHANGED <<requests, redis_client, started, zsets, zexpire, hist>>
    /\ LifeFrame

InitLife ==
    /\ RateInit
    /\ AdmInit
    /\ CacheInit
    /\ UtilInit
    /\ policy = [limit |-> 1, window |-> 1]

NextLife ==
    \/ Tick
    \/ LifeStartup
    \/ \E request \in HttpRequests : \E cls \in Classes : LifeRequestLocal(request, cls)
    \/ \E request \in HttpRequests : \E cls \in Classes : LifeRequestShared(request, cls)
    \/ LifeShutdown

SpecLife == InitLife /\ [][NextLife]_vars

(***************************************************************************)
(* SpecSelect: rate_limit_check (rate_limiting.py lines 135-150) with a    *)
(* shared store that, once connected at startup, answers or fails at each  *)
(* call.                                                                   *)
(***************************************************************************)
InitSelect == InitCheck

NextSelect ==
    \/ Tick
    \/ Connect
    \/ \E request \in HttpRequests : \E cls \in Classes : CheckLocal(request, cls)
    \/ \E request \in HttpRequests : \E cls \in Classes : CheckShared(request, cls)
    \/ \E request \in HttpRequests : \E cls \in Classes : CheckSharedRaised(request, cls)

SpecSelect == InitSelect /\ [][NextSelect]_vars

\* earlier calls of the history made for the same key as call i
EarlierCalls(i) == {j \in 1..(i - 1) : hist[j].key = hist[i].key}

\* earlier admitted calls for the same key whose instant is still inside the
\* window of call i
AdmittedInWindow(i) ==
    {j \in EarlierCalls(i) : hist[j].ret /\ hist[j].t > hist[i].t - hist[i].window}

(***************************************************************************)
(* C1: local limiter, fixed key, limit L and window W, from an empty       *)
(* window: the first L calls made within W seconds return true; a call     *)
(* made while L admitted timestamps are still inside the window returns    *)
(* false; a call made after all recorded timestamps have aged past the     *)
(* window returns true again.                                              *)
(***************************************************************************)
C1_SlidingWindow ==
    \A i \in 1..Len(hist) :
        /\ (/\ Cardinality(EarlierCalls(i)) < hist[i].limit
             /\ \A j \in EarlierCalls(i) : hist[i].t - hist[j].t < hist[i].window)
                => hist[i].ret
        /\ (Cardinality(AdmittedInWindow(i)) >= hist[i].limit) => ~hist[i].ret
        /\ (/\ EarlierCalls(i) # {}
             /\ \A j \in EarlierCalls(i) : hist[j].t <= hist[i].t - hist[i].window)
                => hist[i].ret

\* L admitted calls, then a rejected one in the same window, then an admitted
\* one after the window has passed
C1_Witness ==
    \E i \in 1..Len(hist) : \E j \in 1..Len(hist) :
        /\ i < j
        /\ hist[i].key = hist[j].key
        /\ ~hist[i].ret
        /\ Cardinality(AdmittedInWindow(i)) = hist[i].limit
        /\ hist[j].ret
        /\ \A k \in EarlierCalls(j) : hist[k].t <= hist[j].t - hist[j].window


(***************************************************************************)
(* C2: for every client and endpoint class with policy {limit, window},    *)
(* the number of requests of that class that rate_limit_check admits       *)
(* within any trailing window never exceeds the class's limit.             *)
(***************************************************************************)
AdmittedOfClassInWindow(i) ==
    {j \in 1..i : /\ hist[j].key = hist[i].key
                  /\ hist[j].cls = hist[i].cls
                  /\ hist[j].ret
                  /\ hist[j].t > hist[i].t - RATE_LIMITS[hist[i].cls].window}

C2_PerClassLimit ==
    \A i \in 1..Len(hist) :
        (hist[i].cls \in Classes /\ hist[i].ret)
            => Cardinality(AdmittedOfClassInWindow(i)) <= RATE_LIMITS[hist[i].cls].limit

(***************************************************************************)
(* C3: fail-open: when no client was connected or the pipeline call        *)
(* raises, RedisRateLimiter.is_allowed returns true, whatever the key,     *)
(* limit, window and number of earlier calls.                              *)
(***************************************************************************)
C3_FailOpen ==
    \A i \in 1..Len(hist) :
        (hist[i].via = "redis" /\ ~hist[i].answered) => hist[i].ret

\* a call was rejected by the reachable store, and a later call in the same
\* window, made while the store was failing, was let through
C3_Witness ==
    \E i \in 1..Len(hist) : \E j \in 1..Len(hist) :
        /\ i < j
        /\ hist[i].key = hist[j].key
        /\ hist[i].via = "redis" /\ hist[i].answered /\ ~hist[i].ret
        /\ hist[j].via = "redis" /\ ~hist[j].answered /\ hist[j].ret
        /\ hist[j].t - hist[i].t < hist[j].window
        /\ redis_client = "conn"

(***************************************************************************)
(* C4: shared limiter: every call that reaches the store inserts an entry  *)
(* for `now`, admitted or rejected; a call returns true exactly when the   *)
(* number of entries recorded for the key in the trailing window before    *)
(* its own insertion is below the limit.                                   *)
(***************************************************************************)
\* instants, inside the window of call i, of the earlier calls for the same
\* key that the store executed (one entry per instant)
EntriesInWindow(i) ==
    {hist[j].t : j \in {k \in EarlierCalls(i) :
                          hist[k].applied /\ hist[k].t > hist[i].t - hist[i].window}}

LatestOfKey(i) == \A j \in (i + 1)..Len(hist) : hist[j].key # hist[i].key

C4_RecordsEveryCall ==
    \A i \in 1..Len(hist) :
        /\ hist[i].answered
              => (hist[i].ret <=> Cardinality(EntriesInWindow(i)) < hist[i].limit)
        /\ (hist[i].applied /\ LatestOfKey(i))
              => \E e \in Get(zsets, hist[i].key, {}) : e.score = hist[i].t

\* a rejected call is followed by a call that is rejected although fewer than
\* `limit` admitted calls are inside its window
C4_Witness ==
    \E i \in 1..Len(hist) : \E j \in 1..Len(hist) :
        /\ i < j
        /\ hist[i].key = hist[j].key
        /\ hist[i].via = "redis" /\ hist[i].answered /\ ~hist[i].ret
        /\ hist[j].via = "redis" /\ hist[j].answered /\ ~hist[j].ret
        /\ hist[i].t > hist[j].t - hist[j].window
        /\ Cardinality(AdmittedInWindow(j)) < hist[j].limit

(***************************************************************************)
(* C5: for the same calls at the same instants, the store reachable, the   *)
(* local and the shared limiter return the same booleans.                  *)
(***************************************************************************)
C5_Interchangeable ==
    \A i \in 1..Len(hist) : hist[i].via = "both" => hist[i].ret = hist[i].ret2


(***************************************************************************)
(* C11: the concurrency admission check comes before the rate-limit check, *)
(* which comes before the route function: only an admitted request has a   *)
(* rate-limit verdict, and the route function (the retrieval and inference  *)
(* pipeline) is entered only by a request whose verdict is "allowed"; a     *)
(* request found rate-limited ends with the application's own 429 and its   *)
(* permit returned.  The step that rejects a request for concurrency       *)
(* leaves every rate-limit window as it was.                               *)
(***************************************************************************)
GateOrderOk(rq) ==
    \A r \in RIds :
        /\ rq[r].gate # "none" => ~rq[r].full /\ rq[r].exit # "rejected"
        /\ rq[r].body => rq[r].gate = "allowed"
        /\ rq[r].gate = "limited" =>
              /\ rq[r].pc = "done" /\ rq[r].sent = <<"own">>
              /\ rq[r].released = 1

ConcurrencyRejected(rq) ==
    \E r \in RIds : rq[r].pc = "done" /\ rq[r].exit = "rejected"

C11_GateOrdering ==
    [][/\ GateOrderOk(req')
       /\ (~ConcurrencyRejected(req) /\ ConcurrencyRejected(req'))
             => requests' = requests /\ zsets' = zsets /\ zexpire' = zexpire]_vars

\* a request is rejected for concurrency while another one, admitted and
\* allowed by the rate limiter, is inside the route function
C11_Witness ==
    /\ ConcurrencyRejected(req)
    /\ (DOMAIN requests # {} \/ DOMAIN zsets # {})
    /\ \E r \in RIds : req[r].pc = "handler" /\ req[r].body

(***************************************************************************)
(* C12: the key of a call is the same whatever the order in which the      *)
(* named arguments were supplied; it is the prefix, ':' and HashLen        *)
(* hexadecimal digits, and no key of another prefix equals it.             *)
(***************************************************************************)
Reorderings(kwargs) ==
    {[i \in 1..Len(kwargs) |-> kwargs[p[i]]] : p \in Permutations(1..Len(kwargs))}

Digests == {Hex(i - 1, HashLen) : i \in 1..Len(KeyEnum)}

IsHex(c) == \E i \in 1..Len(HexDigits) : HexDigits[i] = c

C12_KeyDeterministic ==
    call.op = "key" =>
        /\ \A kw \in Reorderings(call.kwargs) :
              GenerateCacheKey(call.prefix, call.args, kw) = call.key
        /\ Len(call.key) = Len(call.prefix) + 1 + HashLen
        /\ SubSeq(call.key, 1, Len(call.prefix) + 1) = call.prefix \o <<":">>
        /\ \A i \in (Len(call.prefix) + 2)..Len(call.key) : IsHex(call.key[i])
        /\ \A prefix \in Prefixes \ {call.prefix} : \A digest \in Digests :
              prefix \o <<":">> \o digest # call.key

\* a call that named k before doc_id
C12_Witness ==
    /\ call.op = "key"
    /\ Len(call.kwargs) = 2
    /\ call.kwargs[1].name = KName
    /\ call.prefix = QueryPrefix

(***************************************************************************)
(* C13: two calls with the same prefix and the same argument names that    *)
(* differ in the value of exactly one argument (a string, an integer or    *)
(* None) have different canonical strings.                                 *)
(***************************************************************************)
KwValue(kwargs, name) ==
    LET i == CHOOSE j \in 1..Len(kwargs) : kwargs[j].name = name IN kwargs[i].value

KwNames(kwargs) == {kwargs[i].name : i \in 1..Len(kwargs)}

\* the number of arguments in which two calls of the same shape differ
Differences(a, b) ==
    Cardinality({i \in 1..Len(a.args) : a.args[i] # b.args[i]})
    + Cardinality({n \in KwNames(a.kwargs) : KwValue(a.kwargs, n) # KwValue(b.kwargs, n)})

SameShape(a, b) ==
    /\ Len(a.args) = Len(b.args)
    /\ KwNames(a.kwargs) = KwNames(b.kwargs)

C13_KeySensitivity ==
    call.op = "key" =>
        \A other \in KeyInputs :
            (SameShape(call, other) /\ Differences(call, other) = 1)
                => KeyString(other.args, other.kwargs) # call.key_string

(***************************************************************************)
(* C14: a get or a set made while the store is unreachable, or whose       *)
(* command raises, lets no exception out; the get returns None and the set *)
(* returns False.                                                          *)
(***************************************************************************)
C14_CacheFailClosed ==
    (call.op \in {"get", "set"} /\ call.reached \in {"unreachable", "raised"}) =>
        /\ ~call.escaped
        /\ IF call.op = "get" THEN call.ret = Absent ELSE call.ret = FALSE

\* the store raised at a get of a key that it holds
C14_Witness ==
    /\ call.op = "get"
    /\ call.reached = "raised"
    /\ CacheKey(call.kind, call.args.subject, call.args.scope, DefaultK)
          \in DOMAIN cache_store

(***************************************************************************)
(* C16: after invalidate_document_cache(d) has run against a store that    *)
(* answered every command, the store holds no entry written by             *)
(* set_query_cache or set_similarity_search_cache with doc_id = d.         *)
(***************************************************************************)
C16_InvalidationByDocument ==
    (call.op = "invalidate" /\ call.reached = "ok") =>
        \A key \in DOMAIN call.after :
            ~ /\ call.after[key].by.kind \in {"query", "similarity"}
              /\ call.after[key].by.scope = StrV(call.doc_id)

(***************************************************************************)
(* C17: an invalidation lets no exception out, also when the store is      *)
(* unreachable or a command raises; when no key matches the document id it *)
(* issues no delete and leaves the store as it was; and invalidating the   *)
(* same document id once more leaves the store as the first invalidation   *)
(* left it.                                                                *)
(***************************************************************************)
MatchingKeys(store, doc_id) ==
    KeysMatching(store, QueryPrefix, doc_id)
    \cup KeysMatching(store, SimilarityPrefix, doc_id)

C17_IdempotentInvalidation ==
    call.op = "invalidate" =>
        /\ ~call.escaped
        /\ MatchingKeys(call.before, call.doc_id) = {} =>
              call.deletes = 0 /\ call.after = call.before
        /\ call.reached = "ok" =>
              InvalidateDocumentCache("conn", call.after, call.doc_id, 0).store
                = call.after

\* an invalidation that found no matching key in a store holding entries
C17_Witness ==
    /\ call.op = "invalidate"
    /\ call.reached = "ok"
    /\ DOMAIN call.before # {}
    /\ MatchingKeys(call.before, call.doc_id) = {}

(***************************************************************************)
(* C15: over an unchanged document set, whatever the store does,           *)
(* query_documents lets no exception out and returns the answer it would   *)
(* compute with no cache at all.                                           *)
(***************************************************************************)
C15_CacheOffCriticalPath ==
    call.op = "query" =>
        /\ ~call.escaped
        /\ call.ret = Present(NoCacheAnswer(call.question, call.doc_id, DefaultK, corpus))

(***************************************************************************)
(* C18: an answer cached before an ingestion committed new content is not  *)
(* served after it: every answer returned is an answer over the documents  *)
(* committed when it is returned.                                          *)
(***************************************************************************)
C18_InvalidationTrigger ==
    call.op = "query" =>
        LET context == call.ret.v.context
        IN  /\ Len(context) = Len(SimilaritySearch(call.question, DefaultK,
                                                   FilterKwargs(call.doc_id), corpus))
            /\ \A i \in 1..Len(context) : context[i].among = corpus

(***************************************************************************)
\* the positions of the texts whose get returned no vector, in order
MissedPositions(c) ==
    SelectSeq([i \in 1..Len(c.texts) |-> i],
              LAMBDA i : ~Truthy("embedding", c.got[i]))

\* the texts at those positions, in their original relative order
MissedTexts(c) ==
    [j \in 1..Len(MissedPositions(c)) |-> c.texts[MissedPositions(c)[j]]]

\* the list a returned call of aembed_documents owes its caller: at a hit
\* the vector the store held before the call, elsewhere the provider's
ReconciledResult(c) ==
    /\ Len(c.result) = Len(c.texts)
    /\ \A i \in 1..Len(c.texts) :
         LET key == CacheKey("embedding", c.texts[i], ModelName, DefaultK)
         IN  IF Truthy("embedding", c.got[i])
             THEN /\ key \in DOMAIN c.before
                  /\ c.result[i] = Loads(c.before[key].data)
             ELSE c.result[i] = EmbeddingOf(c.texts[i])

ProviderFailed(c) ==
    /\ c.op \in {"aembed_documents", "aembed_query"}
    /\ c.invocations # <<>>
    /\ c.async_failed

(* C20, as stated: when the provider's call fails during aembed_query or   *)
(* aembed_documents the failure is raised to the caller of that call, the  *)
(* provider is not invoked again by another path, and the call writes      *)
(* nothing to the cache.                                                   *)
C20_NoFallback ==
    ProviderFailed(call) =>
        /\ call.raised
        /\ Len(call.invocations) = 1
        /\ call.after = call.before

(* C20, amended: when the provider's async call fails during aembed_query  *)
(* or aembed_documents, its sync method is called once with the same       *)
(* argument; when that call fails too the failure is raised to the caller  *)
(* of the same call and the call writes nothing to the cache; when it      *)
(* succeeds the call returns and every entry it writes is the provider's   *)
(* vector of a text the sync method was given.                             *)
C20_ProviderFailure ==
    ProviderFailed(call) =>
        /\ Len(call.invocations) = 2
        /\ call.invocations[2].texts = call.invocations[1].texts
        /\ call.invocations[2].method =
               IF call.op = "aembed_query" THEN "embed_query" ELSE "embed_documents"
        /\ call.raised <=> call.sync_failed
        /\ call.raised => call.after = call.before /\ call.result = <<>>
        /\ ~call.raised =>
             /\ Len(call.result) = Len(call.texts)
             /\ \A key \in DOMAIN call.after :
                  key \notin DOMAIN call.before \/ call.after[key] # call.before[key] =>
                      \E j \in DOMAIN call.invocations[2].texts :
                        LET text == call.invocations[2].texts[j]
                        IN  /\ key = CacheKey("embedding", text, ModelName, DefaultK)
                            /\ Loads(call.after[key].data) = EmbeddingOf(text)

\* both methods of the provider have raised and the caller has the failure
C20_Witness ==
    /\ ProviderFailed(call)
    /\ call.sync_failed
    /\ call.raised
    /\ Len(call.invocations) = 2

\* the key of the text of a call of aembed_query
QueryTextKey(c) == CacheKey("embedding", c.texts[1], ModelName, DefaultK)

\* a call of aembed_query whose lookup gave the vector the store held
QueryCacheHit(c) ==
    /\ c.op = "aembed_query"
    /\ Truthy("embedding", c.got[1])

\* a hit: the cached vector, no provider, no write
HitProtocol(c) ==
    /\ QueryTextKey(c) \in DOMAIN c.before
    /\ c.get_fault = 0
    /\ ~c.raised
    /\ c.result = <<Loads(c.before[QueryTextKey(c)].data)>>
    /\ c.invocations = <<>>
    /\ c.sets = <<>>
    /\ c.after = c.before

\* the end of a miss whose provider gave a vector: one set under the key of
\* the text, and the fresh vector whatever the set did
FreshProtocol(c) ==
    /\ c.sets = c.texts
    /\ c.result = <<EmbeddingOf(c.texts[1])>>
    /\ \A key \in DOMAIN c.after :
         key \notin DOMAIN c.before \/ c.after[key] # c.before[key] =>
             /\ key = QueryTextKey(c)
             /\ Loads(c.after[key].data) = EmbeddingOf(c.texts[1])
    /\ \A key \in DOMAIN c.before : key \in DOMAIN c.after

C22_RetryBound ==
    retry.pc # "idle" =>
        /\ retry.calls <= retry.max_retries + 1
        /\ retry.calls = IF retry.pc = "attempt" THEN retry.attempt ELSE retry.attempt + 1
        /\ retry.pc \in {"returned", "raised"} => retry.calls >= 1
        /\ retry.pc = "returned" =>
             /\ retry.out = [kind |-> "value", attempt |-> retry.calls - 1]
             /\ Len(retry.failures) = retry.calls - 1
             /\ Len(retry.slept) = Len(retry.failures)
        /\ retry.pc = "raised" =>
             /\ retry.calls = retry.max_retries + 1
             /\ Len(retry.failures) = retry.max_retries + 1
             /\ retry.out = [kind |-> "raise",
                             exc |-> [attempt |-> retry.max_retries,
                                      kind |-> retry.failures[retry.max_retries + 1]]]
             /\ Len(retry.slept) = retry.max_retries

\* every attempt of a wrapper with two retries has failed, the last failure
\* of a kind of its own
C22_Witness ==
    /\ retry.pc = "raised"
    /\ retry.max_retries = 2
    /\ retry.calls = 3
    /\ retry.failures = <<"ValueError", "ValueError", "ConnectionError">>
    /\ Len(retry.slept) = 2

\* the wrapped work has come to its own end
WorkFinished == retry.pc \in {"returned", "raised"}

QueryAnswered == work.pc = "responded" /\ work.path = QueryPath

\* every attempt that was made has failed
EveryAttemptFailed == retry.calls >= 1 /\ Len(retry.failures) = retry.calls

LocalStamps(rq) == UNION {{<<k, i>> : i \in 1..Len(rq[k])} : k \in DOMAIN rq}
SharedStamps(zs) == UNION {{<<k, m>> : m \in zs[k]} : k \in DOMAIN zs}

\* the endpoint of a request is being run
EndpointRuns(w) == w.pc \in {"running", "cancelling", "done"}

(* C28: a retry attempt of the endpoint leaves the limiters' windows and   *)
(* the semaphores as they are; the windows change only when the dependency *)
(* of a request that has not entered its endpoint runs, by one timestamp   *)
(* at most; and while the endpoint of the request runs, whatever the       *)
(* number of attempts, exactly one permit of its path is taken.            *)
C28_RetriesInvisible ==
    [][/\ (retry.pc # "idle" /\ retry'.pc # "idle" /\ retry'.calls > retry.calls) =>
            /\ requests' = requests /\ zsets' = zsets /\ zexpire' = zexpire
            /\ semaphores' = semaphores
       /\ (requests' # requests \/ zsets' # zsets) =>
            /\ retry = RetryIdle /\ retry' = RetryIdle
            /\ \E r \in RIds : /\ req[r].pc = "handler"
                               /\ req[r].gate = "none"
                               /\ \A x \in RIds : x # r => req[x].pc = "idle"
            /\ \A r \in RIds : req'[r].pc # "idle" => req'[r].gate # "none"
            /\ Cardinality(LocalStamps(requests'))
                  <= Cardinality(LocalStamps(requests)) + 1
            /\ Cardinality(SharedStamps(zsets'))
                  <= Cardinality(SharedStamps(zsets)) + 1
       /\ EndpointRuns(work') =>
            /\ semaphores'[work'.path] = PathLimit(work'.path) - 1
            /\ \E r \in RIds : /\ req'[r].pc = "handler" /\ req'[r].body
                               /\ req'[r].released = 0]_vars

\* the third attempt of a query request runs; the window of its client holds
\* the one timestamp of this request
C28_Witness ==
    /\ work.pc = "running" /\ work.path = QueryPath
    /\ retry.pc = "running" /\ retry.calls = 3
    /\ Cardinality(LocalStamps(requests)) + Cardinality(SharedStamps(zsets)) = 1
    /\ semaphores[QueryPath] = PathLimit(QueryPath) - 1

Running(state) == {i \in 1..Len(state) : state[i] = "running"}

\* at most m units run, and the slots not taken are free
SlotsBounded ==
    units.pc # "idle" =>
        /\ Cardinality(Running(units.state)) <= units.m
        /\ units.value = units.m - Cardinality(Running(units.state))

\* unit i of the gather under way has not been started
WaitsForSlot(i) ==
    /\ units.pc # "idle"
    /\ i \in 1..Len(units.state)
    /\ units.state[i] = "waiting"

(* C24: during gather_with_concurrency(units, max_concurrency = m) at most *)
(* m units are executing in every reachable state, also after units have   *)
(* failed and after the caller has its answer, and every unit that waits   *)
(* for a slot is started in the end.                                       *)
C24_BoundedFanOut ==
    /\ []SlotsBounded
    /\ \A i \in 1..MaxUnits : WaitsForSlot(i) ~> ~WaitsForSlot(i)

\* a unit has failed and the last unit, which waited for its slot, runs
C24_Witness ==
    /\ units.pc # "idle"
    /\ units.m = 1
    /\ units.state = <<"failed", "ok", "running">>

(* C25: when a unit given to gather_with_concurrency fails, the other      *)
(* units are not cancelled and run to completion, and the failure is       *)
(* delivered to the caller only after all units have finished.             *)
C25_FailureAfterAll ==
    units.pc = "delivered" /\ units.out.kind = "raise" => units.left = 0

(* C26: for callers that release exactly once per acquire, whenever no     *)
(* connection is being created the number of live connections (held by    *)
(* callers plus idle in the pool) equals current_size and is at most       *)
(* max_size, and a caller blocks in get_connection only while other        *)
(* callers hold connections that they will release.                        *)
C26_PoolCapacity ==
    pool.pc = "open" /\ pool.creating = 0 =>
        /\ pool.held + pool.idle = pool.current_size
        /\ pool.current_size <= pool.max_size
        /\ (pool.blocked = 1 /\ pool.idle = 0 => pool.held > 0)

\* the timestamps of a list that are inside the window ending at instant t
InsideWindow(list, window, t) == SelectSeq(list, LAMBDA s : t - s < window)

(***************************************************************************)
(* C29: a call to the local is_allowed appends the current instant to the  *)
(* key's list if and only if it returns true; a call that returns false    *)
(* changes the key's list only by pruning expired timestamps; no call      *)
(* changes the list of any other key.                                      *)
(***************************************************************************)
C29_RecordsOnAdmission ==
    [][Len(hist') = Len(hist) + 1 /\ hist'[Len(hist')].via = "local" =>
          LET c == hist'[Len(hist')]
              kept == InsideWindow(Get(requests, c.key, <<>>), c.window, c.t)
          IN  /\ c.key \in DOMAIN requests'
              /\ c.ret => requests'[c.key] = Append(kept, c.t)
              /\ ~c.ret => requests'[c.key] = kept
              /\ \A key \in DOMAIN requests \ {c.key} :
                    key \in DOMAIN requests' /\ requests'[key] = requests[key]
              /\ DOMAIN requests' = DOMAIN requests \cup {c.key}]_vars

\* a call was rejected after a call for another key was admitted, and the
\* other key still has what it was given
C29_Witness ==
    \E j \in 1..Len(hist) : \E i \in 1..(j - 1) :
        /\ ~hist[j].ret
        /\ hist[i].ret
        /\ hist[i].key # hist[j].key
        /\ hist[i].key \in DOMAIN requests
        /\ requests[hist[i].key] = <<hist[i].t>>
        /\ hist[j].key \in DOMAIN requests
        /\ Len(requests[hist[j].key]) = hist[j].limit

\* the windows of the checks made so far for a key
WindowsOf(key) == {hist[i].window : i \in {j \in 1..Len(hist) : hist[j].key = key}}

(***************************************************************************)
(* C30: in every reachable state, for every key held by the local rate     *)
(* limiter, each retained timestamp t satisfies now - t < window for the   *)
(* window that applies to the key, also for keys not accessed recently and *)
(* for keys checked with different windows by different endpoints.         *)
(***************************************************************************)
C30_WindowInvariant ==
    \A key \in DOMAIN requests : \A i \in 1..Len(requests[key]) :
        \A window \in WindowsOf(key) : now - requests[key][i] < window

Min(a, b) == IF a <= b THEN a ELSE b

AllTasksDone == tasks.pc = "running" /\ \A i \in 1..Len(tasks.of) : tasks.of[i].pc = "done"

TasksAdmitted == {i \in 1..Len(tasks.of) : tasks.of[i].ret = TRUE}

(***************************************************************************)
(* C31: when N tasks call the local is_allowed concurrently for one key    *)
(* with the same limit L and window, from an empty window and all within   *)
(* one window, exactly min(N, L) calls return true and the key's list ends *)
(* with exactly min(N, L) timestamps, under every interleaving.            *)
(***************************************************************************)
C31_NoLostUpdates ==
    AllTasksDone =>
        /\ Cardinality(TasksAdmitted) = Min(Len(tasks.of), policy.limit)
        /\ Len(requests[TaskKey]) = Min(Len(tasks.of), policy.limit)

\* more tasks than the limit have all returned, at different instants
C31_Witness ==
    /\ AllTasksDone
    /\ Len(tasks.of) = 3
    /\ policy.limit = 2
    /\ tasks.of[1].ret = FALSE
    /\ tasks.of[2].now # tasks.of[3].now

\* the requests inside the handler whose path begins with the prefix
InFlightOfClass(prefix) ==
    {r \in RIds : req[r].pc = "handler" /\ StartsWith(req[r].path, prefix)}

(***************************************************************************)
(* C32: for each route class (paths beginning with /query, paths beginning *)
(* with /ingest) the number of in-flight requests of the class never       *)
(* exceeds the class's capacity, whatever distinct paths of the class are  *)
(* used.                                                                   *)
(***************************************************************************)
C32_ClassCapacity ==
    /\ Cardinality(InFlightOfClass("/query")) <= QueryCap
    /\ Cardinality(InFlightOfClass("/ingest")) <= IngestCap

\* a call of aembed_documents that returned, made with the store reachable
\* and answering every command
ReachableBatch(c) ==
    /\ c.op = "aembed_documents"
    /\ c.client = "conn"
    /\ c.get_fault = 0
    /\ c.set_fault = 0
    /\ ~c.raised

(***************************************************************************)
(* C33: with the cache store reachable, after aembed_documents(texts)      *)
(* returns every text that was a miss has its computed vector stored under *)
(* its own (text, model) key, so that a second aembed_documents(texts)     *)
(* made before any entry expires calls no provider method and returns the  *)
(* same list.                                                              *)
(***************************************************************************)
C33_BatchPopulation ==
    ReachableBatch(call) =>
        /\ \A j \in 1..Len(MissedPositions(call)) :
              LET text == call.texts[MissedPositions(call)[j]]
                  key == CacheKey("embedding", text, ModelName, DefaultK)
              IN  /\ key \in DOMAIN call.after
                  /\ Loads(call.after[key].data) = EmbeddingOf(text)
                  /\ call.result[MissedPositions(call)[j]] = EmbeddingOf(text)
        /\ \A asyncOk \in BOOLEAN : \A syncOk \in BOOLEAN :
              \A second \in {AembedDocuments(call.client, call.after, call.texts, 0,
                                             asyncOk, syncOk, 0, FALSE)} :
                  /\ second.invocations = <<>>
                  /\ ~second.raised
                  /\ second.result = call.result
                  /\ second.store = call.after

\* a batch with a hit between two misses of one text was answered
C33_Witness ==
    /\ ReachableBatch(call)
    /\ call.texts = <<<<"A">>, <<"B">>, <<"A">>>>
    /\ MissedPositions(call) = <<1, 3>>
    /\ call.result[2] = EarlierVector(<<"B">>)
    /\ call.after # call.before

(***************************************************************************)
(* C34: at process start connect() is invoked exactly once on the          *)
(* rate-limit store and exactly once on the cache store before any request *)
(* is handled; at process stop each connected store is disconnected        *)
(* exactly once; no request-handling path runs against a store whose       *)
(* connect() was never invoked.                                            *)
(***************************************************************************)
C34_StoreLifecycle ==
    life.pc # "idle" =>
        /\ life.rate_connects = 1
        /\ life.cache_connects = 1
        /\ life.unconnected = 0
        /\ life.pc = "stopped" =>
              /\ life.rate_closes = (IF redis_client = "conn" THEN 1 ELSE 0)
              /\ life.cache_closes = (IF cache_client = "conn" THEN 1 ELSE 0)

(***************************************************************************)
(* C35: in rate_limit_check the shared limiter decides when the shared     *)
(* store is available and the in-memory limiter decides otherwise;         *)
(* whenever the shared store cannot serve a check (never connected, or     *)
(* failing at call time after a successful startup connection) the request *)
(* is still subject to the in-memory limiter: its verdict is the in-memory *)
(* limiter's and its instant is recorded there when admitted.              *)
(***************************************************************************)
C35_LimiterSelection ==
    [][Len(hist') = Len(hist) + 1 =>
          LET c == hist'[Len(hist')]
              local == LocalIsAllowed(requests, c.key, c.limit, c.window, c.t)
          IN  IF c.via = "redis" /\ c.answered
              THEN /\ redis_client = "conn" /\ redis_available
                   /\ requests' = requests
              ELSE /\ c.ret = local.ret
                   /\ requests' = local.requests]_vars

\* the calls for the key of call i, up to call i, that the store executed
\* inside the window of call i
ExecutedInWindow(i) ==
    {j \in 1..i : /\ hist[j].key = hist[i].key
                  /\ hist[j].applied
                  /\ hist[j].t > hist[i].t - hist[i].window}

\* the calls among them that the store answered with an admission
AnsweredAdmitted(i) == {j \in ExecutedInWindow(i) : hist[j].answered /\ hist[j].ret}

(***************************************************************************)
(* C36: each call of the shared limiter that reaches the store adds one    *)
(* entry to the key's set, also when two calls observe the same timestamp, *)
(* so that with the store reachable at most `limit` calls for a key are    *)
(* admitted within any trailing window.                                    *)
(***************************************************************************)
C36_CountsEveryCall ==
    \A i \in 1..Len(hist) :
        /\ (hist[i].via = "redis" /\ hist[i].applied /\ LatestOfKey(i))
              => ZCard(Get(zsets, hist[i].key, {})) = Cardinality(ExecutedInWindow(i))
        /\ (hist[i].via = "redis" /\ hist[i].answered /\ hist[i].ret)
              => Cardinality(AnsweredAdmitted(i)) <= hist[i].limit

(***************************************************************************)
(* C37: for every HTTP request passing through PerformanceMiddleware at    *)
(* most one response start is sent to the client; the 408 timeout response *)
(* is never sent after the handler has sent its own response start.        *)
(***************************************************************************)
C37_SingleResponse ==
    \A r \in RIds :
        /\ Len(req[r].sent) <= 1
        /\ \A i \in 1..Len(req[r].sent) : \A j \in 1..Len(req[r].sent) :
              (req[r].sent[i] = "own" /\ req[r].sent[j] = "408") => j < i

\* create_connection has raised in this step: the creating caller is gone
\* and no caller was given a connection
CreationFailed ==
    /\ pool.pc = "open" /\ pool'.pc = "open"
    /\ pool.creating = 1 /\ pool'.creating = 0
    /\ pool'.held = pool.held

\* a caller waits on the idle queue while no connection exists
BlockedOnNothing ==
    /\ pool.pc = "open"
    /\ pool.blocked = 1
    /\ pool.held + pool.idle + pool.creating = 0

(***************************************************************************)
(* C38: if create_connection raises inside get_connection, current_size is *)
(* left as it was before the call, so that after any number of failed      *)
(* creations the pool can still create up to max_size connections and a    *)
(* later get_connection does not block forever while no connection exists. *)
(***************************************************************************)
C38_CreationFailure ==
    /\ [][CreationFailed => pool'.current_size = pool.current_size - 1]_vars
    /\ [](~BlockedOnNothing)

(***************************************************************************)
(* C39: for callers that release exactly once per acquire, under every     *)
(* interleaving of get_connection and return_connection no connection is   *)
(* held by two callers at once (the connections held and idle are the      *)
(* connections that exist), and no caller stays blocked in get_connection  *)
(* behind the pool lock while an idle connection is available.             *)
(***************************************************************************)
C39_ExclusiveAndProgress ==
    pool.pc = "open" =>
        /\ pool.held + pool.idle = pool.made
        /\ (pool.queued > 0 /\ pool.idle > 0) => pool.creating = 0

(***************************************************************************)
(* C40: a cached value is served as a hit whatever the value is: when a    *)
(* lookup made by query_documents returns a value stored by an earlier set *)
(* for the same arguments, the computation is not repeated, also when the  *)
(* stored value is empty (an empty similarity result list).                *)
(***************************************************************************)
C40_HitWhateverValue ==
    call.op = "query" =>
        /\ call.query_got => call.source = "cache"
        /\ call.similarity_got => ~call.searched

(* C6: in every reachable state, for every route path, the number of       *)
(* requests inside the handler (holding a permit of the path's semaphore)  *)
(* is at most the path's capacity.                                         *)
(***************************************************************************)
C6_AdmissionInvariant ==
    \A path \in Paths : Cardinality(InFlight(path)) <= PathLimit(path)

\* two pools are full at the same time
C6_Witness ==
    /\ Cardinality(InFlight(QueryPath)) = QueryCap
    /\ Cardinality(InFlight(IngestPath)) = IngestCap

(***************************************************************************)
(* C7: a request is never queued waiting for a permit: when the path's     *)
(* pool has no free permit at the check the request is rejected at once    *)
(* with the 429 response and the handler is not invoked; otherwise it      *)
(* takes a permit without suspending.                                      *)
(***************************************************************************)
C7_NonBlocking ==
    \A r \in RIds :
        /\ req[r].pc # "waiting"
        /\ (req[r].pc # "idle" /\ req[r].full)
              => /\ req[r].pc = "done" /\ req[r].exit = "rejected"
                 /\ req[r].sent = <<"429">> /\ req[r].age = 0
        /\ (req[r].pc # "idle" /\ ~req[r].full)
              => /\ req[r].exit # "rejected"
                 /\ req[r].pc = "handler" \/ req[r].released = 1

\* capacity + 1 concurrent requests on one path: the last one is rejected
\* while the others are still inside the handler
C7_Witness ==
    \E r \in RIds :
        /\ req[r].pc = "done" /\ req[r].exit = "rejected"
        /\ req[r].path = QueryPath
        /\ Cardinality(InFlight(QueryPath)) = QueryCap

(***************************************************************************)
(* C8: every admitted request releases its permit exactly once when its    *)
(* handler returns, raises or is cancelled by the request timeout, and a   *)
(* rejected request releases nothing; so the free permits of a path plus   *)
(* the requests in its handler always equal its capacity, and with no      *)
(* request in flight every path has all its permits.                       *)
(***************************************************************************)
C8_LeaseRelease ==
    /\ \A path \in Paths :
          IF path \in DOMAIN semaphores
          THEN semaphores[path] + Cardinality(InFlight(path)) = PathLimit(path)
          ELSE InFlight(path) = {}
    /\ \A r \in RIds :
          /\ req[r].pc = "handler" => req[r].released = 0
          /\ req[r].pc = "done" =>
                req[r].released = IF req[r].exit = "rejected" THEN 0 ELSE 1

\* a request was cancelled by the timeout and, nothing being in flight, its
\* path has all its permits again
C8_Witness ==
    /\ \A path \in Paths : InFlight(path) = {}
    /\ \E r \in RIds :
          /\ req[r].pc = "done" /\ req[r].exit = "cancelled"
          /\ semaphores[req[r].path] = PathLimit(req[r].path)

(***************************************************************************)
(* C9: in every reachable state the number of requests in flight over all  *)
(* paths together is at most the global cap max_concurrent.                *)
(***************************************************************************)
C9_GlobalCap ==
    Cardinality({r \in RIds : req[r].pc = "handler"}) <= MaxConcurrent

(***************************************************************************)
(* C10, as claimed: a handler that has not completed within                *)
(* max_request_time is cancelled and the 408 response is sent; when the    *)
(* handler completes within the ceiling its own response is delivered and  *)
(* no timeout response is sent.                                            *)
(***************************************************************************)
Has408(sent) == \E i \in 1..Len(sent) : sent[i] = "408"

====
